---- MODULE Spec2Model ----
(***************************************************************************)
(* Model of the AutoAnswer content script (extension/content.js): field    *)
(* discovery, the field index, the choice matcher selectBy, the document   *)
(* mutators and the captureAndFill message listener.                       *)
(*                                                                         *)
(* Strings are sequences of one-character strings, so that trimming,       *)
(* lower-casing, normalisation and substring tests are computed the way    *)
(* the JavaScript computes them.                                           *)
(***************************************************************************)
EXTENDS Integers, Sequences, FiniteSets, TLC

\* ------------------------------------------------------------------------
\* String primitives (JavaScript String methods used by content.js)
\* ------------------------------------------------------------------------
UpperChars == <<"A","B","C","D","E","F","G","H","I","J","K","L","M",
                "N","O","P","Q","R","S","T","U","V","W","X","Y","Z">>

LowerChars == <<"a","b","c","d","e","f","g","h","i","j","k","l","m",
                "n","o","p","q","r","s","t","u","v","w","x","y","z">>

DigitChars == <<"0","1","2","3","4","5","6","7","8","9">>

UpperSet == {UpperChars[i] : i \in DOMAIN UpperChars}

LowerAlnumSet == {LowerChars[i] : i \in DOMAIN LowerChars}
                 \cup {DigitChars[i] : i \in DOMAIN DigitChars}

LowerOf == [c \in UpperSet |->
              LowerChars[CHOOSE i \in DOMAIN UpperChars : UpperChars[i] = c]]

IsUpper(c) == c \in UpperSet

IsLowerAlnum(c) == c \in LowerAlnumSet

IsSpace(c) == c \in {" ", "\t", "\n"}

LowerChar(c) == IF c \in UpperSet THEN LowerOf[c] ELSE c

\* String.prototype.toLowerCase
ToLowerCase(s) == [i \in 1..Len(s) |-> LowerChar(s[i])]

\* String.prototype.trim
TrimTo(s, keep) ==
    IF keep = {} THEN <<>>
    ELSE SubSeq(s, CHOOSE i \in keep : \A j \in keep : i <= j,
                   CHOOSE i \in keep : \A j \in keep : j <= i)

Trim(s) == TrimTo(s, {i \in 1..Len(s) : ~IsSpace(s[i])})

\* s.replace(/\s+/g, ' ')
RECURSIVE CollapseFrom(_, _, _)
CollapseFrom(s, i, acc) ==
    IF i > Len(s) THEN acc
    ELSE IF IsSpace(s[i])
         THEN IF i > 1 /\ IsSpace(s[i-1])
              THEN CollapseFrom(s, i + 1, acc)
              ELSE CollapseFrom(s, i + 1, Append(acc, " "))
         ELSE CollapseFrom(s, i + 1, Append(acc, s[i]))

CollapseSpaces(s) == CollapseFrom(s, 1, <<>>)

\* s.replace(/[^a-z0-9]+/g, ' ')
RECURSIVE NonAlnumFrom(_, _, _)
NonAlnumFrom(s, i, acc) ==
    IF i > Len(s) THEN acc
    ELSE IF ~IsLowerAlnum(s[i])
         THEN IF i > 1 /\ ~IsLowerAlnum(s[i-1])
              THEN NonAlnumFrom(s, i + 1, acc)
              ELSE NonAlnumFrom(s, i + 1, Append(acc, " "))
         ELSE NonAlnumFrom(s, i + 1, Append(acc, s[i]))

NonAlnumToSpace(s) == NonAlnumFrom(s, 1, <<>>)

\* String.prototype.includes
Includes(a, b) ==
    \E i \in 0..(Len(a) - Len(b)) : SubSeq(a, i + 1, i + Len(b)) = b

\* Array.prototype.join over a sequence of strings
RECURSIVE JoinFrom(_, _, _, _)
JoinFrom(parts, sep, i, acc) ==
    IF i > Len(parts) THEN acc
    ELSE JoinFrom(parts, sep, i + 1,
                  IF i = 1 THEN parts[i] ELSE acc \o sep \o parts[i])

Join(parts, sep) == JoinFrom(parts, sep, 1, <<>>)

\* decimal rendering of a small index (template literal `${index}`)
NumStr(n) == IF n < 10 THEN <<DigitChars[n + 1]>>
             ELSE <<DigitChars[(n \div 10) + 1], DigitChars[(n % 10) + 1]>>

\* the JavaScript values null / undefined, where a string is expected: a
\* one-element sequence whose element is no character, so it equals no string
Null == <<"NULL">>

\* ------------------------------------------------------------------------
\* normalizeKey and the matcher selectBy
\* ------------------------------------------------------------------------
normalizeKey(s) ==
    IF s = Null \/ s = <<>> THEN <<>>
    ELSE Trim(CollapseSpaces(NonAlnumToSpace(ToLowerCase(s))))

keepPunctLower(s) ==
    IF s = Null THEN <<>> ELSE Trim(CollapseSpaces(ToLowerCase(s)))

\* (o.label || '').trim()
LabelExact(o) == Trim(o.label)

sameCaseInsensitive(label, val) == keepPunctLower(label) = keepPunctLower(val)

csCandidates(opts, val) ==
    {i \in DOMAIN opts : sameCaseInsensitive(opts[i].label, val)}

First(S) == CHOOSE i \in S : \A j \in S : i <= j

StartsUpper(s) == Len(s) > 0 /\ IsUpper(s[1])

\* the score ladder of selectBy's loop over the features of one option
ScoreOf(exact, rawLower, norm, labelLower, lNorm, around, aroundLower, aroundNorm) ==
    IF labelLower = rawLower THEN 90
    ELSE IF labelLower # <<>> /\ (Includes(labelLower, rawLower) \/ Includes(rawLower, labelLower)) THEN 80
    ELSE IF around = exact THEN 78
    ELSE IF aroundLower = rawLower THEN 75
    ELSE IF lNorm = norm THEN 60
    ELSE IF lNorm # <<>> /\ (Includes(lNorm, norm) \/ Includes(norm, lNorm)) THEN 50
    ELSE IF aroundNorm # <<>> /\ (Includes(aroundNorm, norm) \/ Includes(norm, aroundNorm)) THEN 40
    ELSE 0

\* the score the loop of selectBy gives one option
Score(o, val) ==
    ScoreOf(Trim(val), keepPunctLower(val), normalizeKey(val),
            keepPunctLower(o.label), normalizeKey(o.label),
            Trim(o.around), keepPunctLower(Trim(o.around)), normalizeKey(Trim(o.around)))

RECURSIVE SelectLoopNoId(_, _, _, _, _)
\* if (score > bestScore) { best = o; bestScore = score; }
KeepBestNoId(opts, val, i, best, bestScore, score) ==
    IF score > bestScore
    THEN SelectLoopNoId(opts, val, i + 1, i, score)
    ELSE SelectLoopNoId(opts, val, i + 1, best, bestScore)

\* selectBy's loop without the identifier test
SelectLoopNoId(opts, val, i, best, bestScore) ==
    IF i > Len(opts) THEN best
    ELSE IF LabelExact(opts[i]) = Trim(val) THEN i
    ELSE KeepBestNoId(opts, val, i, best, bestScore, Score(opts[i], val))

RECURSIVE SelectLoop(_, _, _, _, _)
\* a later option of equal score replacing the best one
KeepBestLast(opts, val, i, best, bestScore, score) ==
    IF score >= bestScore
    THEN SelectLoop(opts, val, i + 1, i, score)
    ELSE SelectLoop(opts, val, i + 1, best, bestScore)

\* if (score > bestScore) { best = o; bestScore = score; }
KeepBest(opts, val, i, best, bestScore, score) ==
    IF score > bestScore
    THEN SelectLoop(opts, val, i + 1, i, score)
    ELSE SelectLoop(opts, val, i + 1, best, bestScore)

\* the for-loop of selectBy: returns the index of the chosen option, 0 for null
SelectLoop(opts, val, i, best, bestScore) ==
    IF i > Len(opts) THEN best
    ELSE IF opts[i].id = val THEN i
    ELSE IF LabelExact(opts[i]) = Trim(val) THEN i
    ELSE KeepBest(opts, val, i, best, bestScore, Score(opts[i], val))

\* the case tie-break over the options equal to the value ignoring case, then
\* the loop
TieBreak(opts, val, cs, exactCase, capitalized) ==
    IF Cardinality(cs) >= 2 /\ exactCase # {} THEN First(exactCase)
    ELSE IF Cardinality(cs) >= 2 /\ capitalized # {} THEN First(capitalized)
    ELSE SelectLoop(opts, val, 1, 0, -1)

\* selectBy without the case tie-break
selectByNoTieBreak(opts, val) ==
    IF val = Null THEN 0 ELSE SelectLoop(opts, val, 1, 0, -1)

selectBy(opts, val) ==
    IF val = Null THEN 0
    ELSE TieBreak(opts, val, csCandidates(opts, val),
                  {i \in csCandidates(opts, val) : LabelExact(opts[i]) = Trim(val)},
                  {i \in csCandidates(opts, val) : StartsUpper(LabelExact(opts[i]))})

\* ------------------------------------------------------------------------
\* String literals
\* ------------------------------------------------------------------------
S_input    == <<"i","n","p","u","t">>
S_textarea == <<"t","e","x","t","a","r","e","a">>
S_div      == <<"d","i","v">>
S_radio    == <<"r","a","d","i","o">>
S_checkbox == <<"c","h","e","c","k","b","o","x">>
S_text     == <<"t","e","x","t">>
S_button   == <<"b","u","t","t","o","n">>
S_group    == <<"g","r","o","u","p">>
S_sel      == <<"s","e","l">>
S_choices  == <<"c","h","o","i","c","e","s">>
S_colon    == <<":">>
S_pipe     == <<"|">>

\* ------------------------------------------------------------------------
\* The document: a sequence of controls in document order.  Each record
\* holds the markup facts the script reads from the control and around it.
\* clobbered: the control is a form element holding a control named
\* "hasAttribute", so that el.hasAttribute is that control and no function.
\* ------------------------------------------------------------------------
E0 == [tag |-> S_input, type |-> <<>>, role |-> <<>>, editable |-> FALSE,
       name |-> <<>>, htmlId |-> <<>>, aria |-> <<>>, ph |-> <<>>,
       forLabel |-> <<>>, wrapLabel |-> <<>>, labelledBy |-> <<>>,
       prevText |-> <<>>, heading |-> <<>>, legend |-> <<>>,
       rgroup |-> 0, rgLabel |-> <<>>, parentText |-> <<>>,
       form |-> 0, visible |-> TRUE, labelVisible |-> FALSE,
       parentVisible |-> TRUE, dist |-> 0, clobbered |-> FALSE]

\* elements of a set of naturals in increasing order (document order)
RECURSIVE SortedSeq(_)
SortedSeq(S) ==
    IF S = {} THEN <<>>
    ELSE LET m == CHOOSE x \in S : \A y \in S : x <= y
         IN  <<m>> \o SortedSeq(S \ {m})

Range(f) == {f[i] : i \in DOMAIN f}

\* a || b for strings
OrElse(a, b) == IF a # <<>> THEN a ELSE b

generateFieldId(el, index) ==
    LET p1 == IF el.htmlId # <<>> THEN <<<<"i","d",":">> \o el.htmlId>> ELSE <<>>
        p2 == IF el.name # <<>> THEN <<<<"n","a","m","e",":">> \o el.name>> ELSE <<>>
        p3 == IF el.aria # <<>> THEN <<<<"a","r","i","a",":">> \o el.aria>> ELSE <<>>
        p4 == IF el.ph # <<>> THEN <<<<"p","h",":">> \o el.ph>> ELSE <<>>
        type == OrElse(el.type, ToLowerCase(el.tag))
        p5 == <<<<"t","y","p","e",":">> \o type>>
        p6 == <<<<"i","d","x",":">> \o NumStr(index)>>
    IN  Join(p1 \o p2 \o p3 \o p4 \o p5 \o p6, S_pipe)

getLabelForElement(el) ==
    IF el.htmlId # <<>> /\ Trim(el.forLabel) # <<>> THEN Trim(el.forLabel)
    ELSE IF Trim(el.wrapLabel) # <<>> THEN Trim(el.wrapLabel)
    ELSE IF el.aria # <<>> THEN Trim(el.aria)
    ELSE IF Trim(el.labelledBy) # <<>> THEN Trim(el.labelledBy)
    ELSE IF el.ph # <<>> THEN Trim(el.ph)
    ELSE IF Trim(el.prevText) # <<>> THEN Trim(el.prevText)
    ELSE IF Trim(el.heading) # <<>> THEN Trim(el.heading)
    ELSE IF el.name # <<>> THEN el.name
    ELSE IF el.htmlId # <<>> THEN el.htmlId
    ELSE ToLowerCase(el.tag)

isVisible(el) == el.visible

isChoiceElementVisible(el) ==
    isVisible(el) \/ el.labelVisible \/ el.parentVisible

AllowedTextTypes ==
    {S_text, <<"s","e","a","r","c","h">>, <<"e","m","a","i","l">>,
     <<"u","r","l">>, <<"p","a","s","s","w","o","r","d">>,
     <<"t","e","l">>, <<"n","u","m","b","e","r">>}

\* the filter of collectSchema over "input, textarea, [contenteditable]"
IsTextCandidate(el) ==
    IF el.tag = S_input
    THEN ToLowerCase(OrElse(el.type, S_text)) \in AllowedTextTypes /\ isVisible(el)
    ELSE IF el.tag = S_textarea \/ el.editable THEN isVisible(el)
    ELSE FALSE

\* role if it is radio/checkbox, else the type attribute
KindOf(el) ==
    LET role == ToLowerCase(el.role)
    IN  IF role = S_radio \/ role = S_checkbox THEN role ELSE ToLowerCase(el.type)

IsNativeChoice(el) ==
    el.tag = S_input /\ ToLowerCase(el.type) \in {S_radio, S_checkbox}

IsRoleChoice(el) == el.role \in {S_radio, S_checkbox}

\* ------------------------------------------------------------------------
\* Discovery: collectSchema and the discovery part of
\* fillSelectionChoicesIfAny.  A page pg is the sequence of controls; the
\* generated tags are tags[e] = [id, group, label] (<<>> = attribute absent).
\* ------------------------------------------------------------------------
NoTag == [id |-> <<>>, group |-> <<>>, label |-> <<>>]

\* key.split(":")[0]
SplitHead(s) ==
    LET cut == {i \in 1..Len(s) : s[i] = ":"}
    IN  IF cut = {} THEN s ELSE SubSeq(s, 1, First(cut) - 1)

\* findGroupKey inside collectChoiceGroupsInContainer
findGroupKey(el) ==
    LET ariaGroupLabel == IF el.rgroup # 0 THEN el.rgLabel ELSE <<>>
        base == OrElse(el.name, OrElse(ariaGroupLabel, OrElse(Trim(el.legend),
                OrElse(Trim(el.heading), OrElse(getLabelForElement(el), S_group)))))
    IN  KindOf(el) \o S_colon \o base

\* findGroupKey inside fillSelectionChoicesIfAny: type attribute only, no ARIA
findGroupKeySel(el) ==
    LET base == OrElse(el.name, OrElse(Trim(el.legend),
                OrElse(Trim(el.heading), OrElse(getLabelForElement(el), S_group))))
    IN  ToLowerCase(el.type) \o S_colon \o base

\* legend || heading || getLabelForElement(first) || ""
GroupQuestion(el) ==
    OrElse(Trim(el.legend), OrElse(Trim(el.heading), getLabelForElement(el)))

\* the groups built from the element list elems with group keys keys
BuildGroups(pg, elems, keys, prefix) ==
    LET firsts == SortedSeq({i \in 1..Len(elems) :
                               \A j \in 1..(i - 1) : keys[j] # keys[i]})
    IN  [g \in 1..Len(firsts) |->
           LET key  == keys[firsts[g]]
               kind == SplitHead(key)
               pos  == SortedSeq({i \in 1..Len(elems) : keys[i] = key})
               gid  == prefix \o S_colon \o kind \o S_colon \o NumStr(g - 1)
           IN  [groupId   |-> gid,
                groupType |-> IF kind = S_radio THEN S_radio ELSE S_checkbox,
                question  |-> GroupQuestion(pg[elems[pos[1]]]),
                options   |-> [i \in 1..Len(pos) |->
                                 [id |-> generateFieldId(pg[elems[pos[i]]], i - 1),
                                  el |-> elems[pos[i]]]]]]

\* the setAttribute calls of one pass, in program order
RECURSIVE GroupAssignments(_, _)
GroupAssignments(groups, g) ==
    IF g > Len(groups) THEN <<>>
    ELSE [i \in 1..Len(groups[g].options) |->
            [el |-> groups[g].options[i].el, id |-> groups[g].options[i].id,
             group |-> groups[g].groupId]]
         \o GroupAssignments(groups, g + 1)

RECURSIVE ApplyAssignments(_, _, _)
ApplyAssignments(tg, asg, i) ==
    IF i > Len(asg) THEN tg
    ELSE ApplyAssignments(
           [tg EXCEPT ![asg[i].el] =
              [@ EXCEPT !.id = asg[i].id,
                        !.group = IF asg[i].group = Null THEN @ ELSE asg[i].group]],
           asg, i + 1)

TextCandidates(pg) == SortedSeq({e \in DOMAIN pg : IsTextCandidate(pg[e])})

ChoiceElements(pg) ==
    SortedSeq({e \in DOMAIN pg : IsNativeChoice(pg[e]) /\ isChoiceElementVisible(pg[e])})
    \o SortedSeq({e \in DOMAIN pg : IsRoleChoice(pg[e]) /\ isChoiceElementVisible(pg[e])})

\* collectSchema: the schema returned and the tags left on the document
collectSchema(pg, tg) ==
    LET cands  == TextCandidates(pg)
        fields == [i \in 1..Len(cands) |->
                     [id |-> generateFieldId(pg[cands[i]], i - 1), el |-> cands[i]]]
        elems  == ChoiceElements(pg)
        keys   == [i \in 1..Len(elems) |-> findGroupKey(pg[elems[i]])]
        groups == BuildGroups(pg, elems, keys, S_group)
        asg    == [i \in 1..Len(fields) |->
                     [el |-> fields[i].el, id |-> fields[i].id, group |-> Null]]
                  \o GroupAssignments(groups, 1)
    IN  [textFields |-> fields, choiceGroups |-> groups,
         tags |-> ApplyAssignments(tg, asg, 1)]

\* the discovery of fillSelectionChoicesIfAny over the selected block
SelectionInputs(pg, block) ==
    SortedSeq({e \in block : IsNativeChoice(pg[e]) /\ isVisible(pg[e])})

collectSelection(pg, tg, block) ==
    LET elems  == SelectionInputs(pg, block)
        keys   == [i \in 1..Len(elems) |-> findGroupKeySel(pg[elems[i]])]
        groups == BuildGroups(pg, elems, keys, S_sel)
    IN  [choiceGroups |-> groups,
         tags |-> ApplyAssignments(tg, GroupAssignments(groups, 1), 1)]

\* ------------------------------------------------------------------------
\* buildFieldIndex
\* ------------------------------------------------------------------------
Get(m, k) == IF k \in DOMAIN m THEN m[k] ELSE 0

Last(S) == CHOOSE i \in S : \A j \in S : j <= i

deriveGroupQuestionFromElement(el) ==
    OrElse(Trim(el.legend), OrElse(Trim(el.heading), getLabelForElement(el)))

\* closest('label')?.innerText || parentElement?.innerText || ''
AroundText(el) == OrElse(el.wrapLabel, el.parentText)

\* a later control replacing the earlier mapping
LastSeen(S) == Last(S)

\* if (key && !map.has(key)) map.set(key, el): of the controls carrying a
\* key, scanned in document order, the first one is registered
FirstSeen(S) == First(S)

buildFieldIndex(pg, tg) ==
    LET inputs == {e \in DOMAIN pg : tg[e].id # <<>>}
        labelOf(e) == normalizeKey(getLabelForElement(pg[e]))
        nameOf(e)  == normalizeKey(pg[e].name)
        hidOf(e)   == normalizeKey(pg[e].htmlId)
        phOf(e)    == normalizeKey(pg[e].ph)
        grouped    == {e \in inputs : tg[e].group # <<>>}
        gids       == {tg[e].group : e \in grouped}
        firstOf(g) == First({e \in grouped : tg[e].group = g})
        qNorm(g)   == normalizeKey(deriveGroupQuestionFromElement(pg[firstOf(g)]))
    IN  [byId   |-> [k \in {tg[e].id : e \in inputs} |->
                       Last({e \in inputs : tg[e].id = k})],
         byLabel |-> [k \in {labelOf(e) : e \in inputs} \ {<<>>} |->
                       FirstSeen({e \in inputs : labelOf(e) = k})],
         byName |-> [k \in {nameOf(e) : e \in inputs} \ {<<>>} |->
                       FirstSeen({e \in inputs : nameOf(e) = k})],
         byHtmlId |-> [k \in {hidOf(e) : e \in inputs} \ {<<>>} |->
                       FirstSeen({e \in inputs : hidOf(e) = k})],
         byPlaceholder |-> [k \in {phOf(e) : e \in inputs} \ {<<>>} |->
                       FirstSeen({e \in inputs : phOf(e) = k})],
         byGroup |-> [g \in gids |->
                       LET els == SortedSeq({e \in grouped : tg[e].group = g})
                       IN  [type |-> ToLowerCase(pg[els[1]].type),
                            question |-> deriveGroupQuestionFromElement(pg[els[1]]),
                            options |-> [i \in 1..Len(els) |->
                                           [el |-> els[i],
                                            label |-> getLabelForElement(pg[els[i]]),
                                            id |-> tg[els[i]].id,
                                            around |-> AroundText(pg[els[i]])]]]],
         byGroupQuestion |-> [k \in {qNorm(g) : g \in gids} \ {<<>>} |->
                       tg[First({firstOf(g) : g \in {h \in gids : qNorm(h) = k}})].group]]

\* the data-autoanswer-label attributes buildFieldIndex writes
IndexLabelTags(pg, tg) ==
    [e \in DOMAIN tg |->
       IF tg[e].id # <<>> /\ normalizeKey(getLabelForElement(pg[e])) # <<>>
       THEN [tg[e] EXCEPT !.label = normalizeKey(getLabelForElement(pg[e]))]
       ELSE tg[e]]

\* ------------------------------------------------------------------------
\* Document mutators.  st is the mutable part of the document together with
\* the locals of fillAnswers:
\*   checked, aria, value : per control;  ev : events dispatched per control
\*   filled : filledCount;  touched : touchedForms in insertion order
\*   marks : the ensureChecked calls made, in order;  hit : result of applyTo
\* ------------------------------------------------------------------------
Bump(st, e, kind) == [st EXCEPT !.ev[e][kind] = @ + 1]

\* typeof value === "string" ? value : JSON.stringify(value)
RECURSIVE JsonList(_, _)
JsonList(vals, i) ==
    IF i > Len(vals) THEN <<>>
    ELSE (IF i > 1 THEN <<",">> ELSE <<>>)
         \o (IF vals[i] = Null THEN <<"n","u","l","l">>
             ELSE <<"\"">> \o vals[i] \o <<"\"">>)
         \o JsonList(vals, i + 1)

JsonValue(v) ==
    IF v.kind = "str" THEN <<"\"">> \o v.vals[1] \o <<"\"">>
    ELSE IF v.kind = "arr" THEN <<"[">> \o JsonList(v.vals, 1) \o <<"]">>
    ELSE <<"n","u","l","l">>

RECURSIVE JsonEntries(_, _)
JsonEntries(entries, i) ==
    IF i > Len(entries) THEN <<>>
    ELSE (IF i > 1 THEN <<",">> ELSE <<>>)
         \o <<"\"">> \o entries[i].key \o <<"\"", ":">> \o JsonValue(entries[i].val)
         \o JsonEntries(entries, i + 1)

JsonObject(entries) == <<"{">> \o JsonEntries(entries, 1) \o <<"}">>

ValueText(v) == IF v.kind = "str" THEN v.vals[1] ELSE JsonValue(v)

\* el.value += v instead of el.value = v
setElementValueAppend(pg, st, e, v, suppressSubmit) ==
    IF pg[e].tag = S_textarea \/ pg[e].tag = S_input
    THEN LET s1 == Bump([st EXCEPT !.value[e] = @ \o v], e, "input")
         IN  IF suppressSubmit THEN s1 ELSE Bump(s1, e, "change")
    ELSE IF pg[e].editable
    THEN Bump([st EXCEPT !.value[e] = @ \o v], e, "input")
    ELSE st

setElementValue(pg, st, e, v, suppressSubmit) ==
    IF pg[e].tag = S_textarea \/ pg[e].tag = S_input
    THEN LET s1 == Bump([st EXCEPT !.value[e] = v], e, "input")
         IN  IF suppressSubmit THEN s1 ELSE Bump(s1, e, "change")
    ELSE IF pg[e].editable
    THEN Bump([st EXCEPT !.value[e] = v], e, "input")
    ELSE st

\* the other members of the browser's radio button group of a native radio
\* (same form owner, same non-empty name): unchecked when it becomes checked
BrowserRadioPeers(pg, e) ==
    IF pg[e].tag = S_input /\ ToLowerCase(pg[e].type) = S_radio /\ pg[e].name # <<>>
    THEN {n \in DOMAIN pg \ {e} :
            /\ pg[n].tag = S_input /\ ToLowerCase(pg[n].type) = S_radio
            /\ pg[n].name = pg[e].name /\ pg[n].form = pg[e].form}
    ELSE {}

\* the node list ensureChecked clears: by name, else by enclosing radiogroup
EnsureCheckedGroup(pg, e) ==
    IF pg[e].name # <<>>
    THEN {n \in DOMAIN pg : /\ pg[n].tag = S_input
                            /\ ToLowerCase(pg[n].type) = S_radio
                            /\ pg[n].name = pg[e].name}
    ELSE IF pg[e].rgroup # 0
    THEN {n \in DOMAIN pg : pg[n].rgroup = pg[e].rgroup /\ pg[n].role = S_radio}
    ELSE {}

\* group.forEach: aria-checked false / checked = false on every other node
ClearSiblings(pg, st, sibs) ==
    [st EXCEPT
       !.aria = [n \in DOMAIN @ |->
                   IF n \in sibs /\ pg[n].role # <<>> THEN FALSE ELSE @[n]],
       !.checked = [n \in DOMAIN @ |->
                   IF n \in sibs /\ pg[n].role = <<>> THEN FALSE ELSE @[n]]]

\* el.setAttribute('aria-checked', 'true') or el.checked = true
SetChecked(pg, st, e, peers) ==
    IF pg[e].role # <<>>
    THEN [st EXCEPT !.aria[e] = TRUE]
    ELSE [st EXCEPT !.checked = [n \in DOMAIN @ |->
                       IF n = e THEN TRUE
                       ELSE IF n \in peers THEN FALSE ELSE @[n]]]

\* the events ensureChecked dispatches on the element
CheckedEvents(pg, st, e, suppressSubmit) ==
    IF pg[e].role # <<>>
    THEN IF suppressSubmit THEN st
         ELSE Bump(Bump(st, e, "click"), e, "change")
    ELSE IF suppressSubmit THEN Bump(st, e, "input")
         ELSE Bump(Bump(st, e, "input"), e, "change")

\* the nodes of the forEach: the group without el, for a radio-kind call
EnsureCheckedSibs(pg, e, isRadio) ==
    IF KindOf(pg[e]) = S_radio \/ isRadio THEN EnsureCheckedGroup(pg, e) \ {e} ELSE {}

\* the nodes on which node.hasAttribute('role') raises a TypeError
NotCallable(pg, nodes) == {n \in nodes : pg[n].clobbered}

\* the siblings cleared before the forEach reaches a node that raises
ClearedBeforeThrow(pg, sibs) ==
    IF NotCallable(pg, sibs) = {} THEN sibs
    ELSE {n \in sibs : n < First(NotCallable(pg, sibs))}

\* ensureChecked with its sibling list: it raises at the first sibling, or at
\* el itself, whose hasAttribute is no function; nothing catches inside
EnsureCheckedIn(pg, st, e, sibs, suppressSubmit) ==
    IF NotCallable(pg, sibs \cup {e}) # {}
    THEN [ClearSiblings(pg, st, ClearedBeforeThrow(pg, sibs)) EXCEPT !.threw = TRUE]
    ELSE CheckedEvents(pg,
             SetChecked(pg, ClearSiblings(pg, st, sibs), e, BrowserRadioPeers(pg, e)),
             e, suppressSubmit)

ensureChecked(pg, st, e, isRadio, suppressSubmit) ==
    EnsureCheckedIn(pg, st, e, EnsureCheckedSibs(pg, e, isRadio), suppressSubmit)

\* touchedForms.add(el.closest("form"))
Touch(pg, st, e) ==
    IF pg[e].form # 0 /\ pg[e].form \notin Range(st.touched)
    THEN [st EXCEPT !.touched = Append(@, pg[e].form)]
    ELSE st

\* ------------------------------------------------------------------------
\* Answer payloads.  A value is [kind, vals]: kind "str" (vals = <<s>>),
\* "arr" (vals = the array; an entry may be Null) or "other".
\* A payload is [shape, list, hasChoices, choices, hasFields, fields, top]:
\*   shape "null"   : null / undefined
\*   shape "list"   : list = items [id, sel, label, name, htmlId, value]
\*                    sel: 0 = no selector, -1 = selector matching no element,
\*                    -2 = a string that is no valid selector,
\*                    e > 0 = selector whose first match is control e
\*   shape "object" : choices / fields entries [key, val] when present, top =
\*                    the remaining top-level entries
\*   shape "other"  : any other truthy non-object (e.g. a string)
\* ------------------------------------------------------------------------
Str(s) == [kind |-> "str", vals |-> <<s>>]
Arr(vs) == [kind |-> "arr", vals |-> vs]
Entry(k, v) == [key |-> k, val |-> v]
Item(id, sel, label, name, htmlId, v) ==
    [id |-> id, sel |-> sel, label |-> label, name |-> name, htmlId |-> htmlId,
     value |-> v]

NullAnswers == [shape |-> "null", list |-> <<>>, hasChoices |-> FALSE, choices |-> <<>>,
                hasFields |-> FALSE, fields |-> <<>>, top |-> <<>>]
ListAnswers(items) == [NullAnswers EXCEPT !.shape = "list", !.list = items]
ObjAnswers(hasC, cs, hasF, fs, top) ==
    [NullAnswers EXCEPT !.shape = "object", !.hasChoices = hasC, !.choices = cs,
                        !.hasFields = hasF, !.fields = fs, !.top = top]

\* ------------------------------------------------------------------------
\* fillAnswers up to its await: resolution and mutation
\* ------------------------------------------------------------------------
applyTo(pg, st, e, v, skip) ==
    IF e = 0 THEN [st EXCEPT !.hit = FALSE]
    ELSE Touch(pg, [setElementValue(pg, st, e, ValueText(v), skip)
                      EXCEPT !.filled = @ + 1, !.hit = TRUE], e)

\* if (item.id || item.fieldId) applyTo(index.byId.get(...), value)
ItemById(pg, idx, st, item, skip) ==
    IF item.id # <<>>
    THEN applyTo(pg, st, Get(idx.byId, item.id), item.value, skip)
    ELSE [st EXCEPT !.hit = FALSE]

\* if (item.selector) applyTo(document.querySelector(item.selector), value);
\* querySelector throws on a string that is no valid selector
ItemBySelector(pg, st, item, skip) ==
    IF st.hit THEN st
    ELSE IF item.sel = -2 THEN [st EXCEPT !.threw = TRUE]
    ELSE IF item.sel # 0
    THEN applyTo(pg, st, IF item.sel > 0 THEN item.sel ELSE 0, item.value, skip)
    ELSE st

\* if (key) applyTo(map.get(key), value), for the label, name and htmlId maps
ItemByKey(pg, map, key, st, item, skip) ==
    IF st.hit \/ st.threw THEN st
    ELSE IF key # <<>> THEN applyTo(pg, st, Get(map, key), item.value, skip)
    ELSE st

\* one item of the ordered-list shape: the first lookup that hits is applied
ListItem(pg, idx, st, item, skip) ==
    ItemByKey(pg, idx.byHtmlId, normalizeKey(item.htmlId),
        ItemByKey(pg, idx.byName, normalizeKey(item.name),
            ItemByKey(pg, idx.byLabel, normalizeKey(item.label),
                ItemBySelector(pg, ItemById(pg, idx, st, item, skip), item, skip),
                item, skip),
            item, skip),
        item, skip)

RECURSIVE ListLoop(_, _, _, _, _, _)
ListLoop(pg, idx, st, items, i, skip) ==
    IF i > Len(items) \/ st.threw THEN st
    ELSE ListLoop(pg, idx, ListItem(pg, idx, st, items[i], skip), items, i + 1, skip)

\* the group a choices key resolves to: <<>> when none
ResolveGroup(idx, groupKey) ==
    IF groupKey \in DOMAIN idx.byGroup THEN groupKey
    ELSE IF normalizeKey(groupKey) \in DOMAIN idx.byGroupQuestion
    THEN idx.byGroupQuestion[normalizeKey(groupKey)]
    ELSE <<>>

\* if (opt?.el) { ensureChecked(opt.el, ...); filledCount++; touchedForms.add(form) }
\* filledCount++ and touchedForms.add(form), not reached when ensureChecked
\* raised
Marked(pg, st, el, gid, v, isRadio) ==
    IF st.threw THEN st
    ELSE Touch(pg,
           [st EXCEPT !.filled = @ + 1,
                      !.marks = Append(@, [el |-> el, isRadio |-> isRadio,
                                           gid |-> gid, val |-> v])],
           el)

MarkOption(pg, st, opts, o, gid, v, isRadio, skip) ==
    IF o = 0 THEN st
    ELSE Marked(pg, ensureChecked(pg, st, opts[o].el, isRadio, skip),
                opts[o].el, gid, v, isRadio)

\* one value of a choices entry: selectBy, then the option it returns
ChoiceValue(pg, idx, st, gid, v, isRadio, skip) ==
    MarkOption(pg, st, idx.byGroup[gid].options,
               selectBy(idx.byGroup[gid].options, v), gid, v, isRadio, skip)

\* the forEach over an array answer stopping after its first value
ValuesLoopFirstOnly(pg, idx, st, gid, vals, i, skip) ==
    IF i > Len(vals) \/ i > 1 THEN st
    ELSE ChoiceValue(pg, idx, st, gid, vals[i], FALSE, skip)

RECURSIVE ValuesLoop(_, _, _, _, _, _, _)
ValuesLoop(pg, idx, st, gid, vals, i, skip) ==
    IF i > Len(vals) \/ st.threw THEN st
    ELSE ValuesLoop(pg, idx, ChoiceValue(pg, idx, st, gid, vals[i], FALSE, skip),
                    gid, vals, i + 1, skip)

RECURSIVE ChoicesLoop(_, _, _, _, _, _)
ChoicesLoop(pg, idx, st, entries, i, skip) ==
    IF i > Len(entries) \/ st.threw THEN st
    ELSE LET gid == ResolveGroup(idx, entries[i].key)
             v   == entries[i].val
             s1  == IF gid = <<>> THEN st
                    ELSE IF v.kind = "arr" THEN ValuesLoop(pg, idx, st, gid, v.vals, 1, skip)
                    ELSE IF v.kind = "str" THEN ChoiceValue(pg, idx, st, gid, v.vals[1], TRUE, skip)
                    ELSE st
         IN  ChoicesLoop(pg, idx, s1, entries, i + 1, skip)

\* byId.get(key) || byLabel.get(norm) || byName.get(norm) || byHtmlId.get(norm)
\*   || byPlaceholder.get(norm)
ResolveKey(idx, key) ==
    LET k == normalizeKey(key)
    IN  IF Get(idx.byId, key) # 0 THEN Get(idx.byId, key)
        ELSE IF Get(idx.byLabel, k) # 0 THEN Get(idx.byLabel, k)
        ELSE IF Get(idx.byName, k) # 0 THEN Get(idx.byName, k)
        ELSE IF Get(idx.byHtmlId, k) # 0 THEN Get(idx.byHtmlId, k)
        ELSE Get(idx.byPlaceholder, k)

RECURSIVE KeysLoop(_, _, _, _, _, _)
KeysLoop(pg, idx, st, entries, i, skip) ==
    IF i > Len(entries) \/ st.threw THEN st
    ELSE LET e == ResolveKey(idx, entries[i].key)
         IN  KeysLoop(pg, idx,
                      IF e # 0 THEN applyTo(pg, st, e, entries[i].val, skip) ELSE st,
                      entries, i + 1, skip)

\* Object.entries(answers) of an object payload without a fields object
FlatEntries(answers) ==
    (IF answers.hasChoices
     THEN <<Entry(S_choices, Str(JsonObject(answers.choices)))>> ELSE <<>>)
    \o answers.top

FillMutate(pg, idx, st, answers, skip) ==
    IF answers.shape = "list" THEN ListLoop(pg, idx, st, answers.list, 1, skip)
    ELSE IF answers.shape = "object"
    THEN LET s1 == IF answers.hasChoices
                   THEN ChoicesLoop(pg, idx, st, answers.choices, 1, skip) ELSE st
         IN  IF answers.hasFields
             THEN KeysLoop(pg, idx, s1, answers.fields, 1, skip)
             ELSE KeysLoop(pg, idx, s1, FlatEntries(answers), 1, skip)
    ELSE st

\* ------------------------------------------------------------------------
\* Pages the script is run on.  A page is
\*   els     : the controls in document order
\*   forms   : form id -> whether the form holds a submit control or a button
\*   block   : the controls inside the block around the user's selection
\*   focus   : the controls the user may have focused
\*   value0  : the controls' content before the trigger
\*   answers : what the provider may answer for this page
\* ------------------------------------------------------------------------
MaxVals == 2

\* the arrays of 1..n distinct members of S
Seqs(S, n) ==
    UNION {{q \in [1..k -> S] : \A i, j \in 1..k : i # j => q[i] # q[j]} : k \in 1..n}

StrVals(vals) == {Str(s) : s \in vals}

ArrVals(vals) == {Arr(q) : q \in Seqs(vals, MaxVals)}

\* { choices: { key: value } } for each of the keys and values
ChoiceAnswers(keys, vals) ==
    {ObjAnswers(TRUE, <<Entry(k, v)>>, FALSE, <<>>, <<>>) : k \in keys, v \in vals}

FieldAnswers(keys, texts) ==
    {ObjAnswers(FALSE, <<>>, TRUE, <<Entry(k, Str(t))>>, <<>>) : k \in keys, t \in texts}
    \cup {ObjAnswers(FALSE, <<>>, FALSE, <<>>, <<Entry(k, Str(t))>>) : k \in keys, t \in texts}
    \cup {ListAnswers(<<Item(k, 0, <<>>, <<>>, <<>>, Str(t))>>) : k \in keys, t \in texts}
    \cup {ListAnswers(<<Item(<<>>, 0, k, <<>>, <<>>, Str(t))>>) : k \in keys, t \in texts}
    \cup {ListAnswers(<<Item(<<>>, 0, <<>>, k, <<>>, Str(t))>>) : k \in keys, t \in texts}
    \cup {ListAnswers(<<Item(<<>>, -1, <<>>, <<>>, k, Str(t))>>) : k \in keys, t \in texts}

Radio(name, label, form) ==
    [E0 EXCEPT !.type = S_radio, !.name = name, !.wrapLabel = label, !.form = form,
               !.visible = FALSE, !.labelVisible = TRUE]

\* three radios named "color"; the first two inside form 1, the third outside
PageColor ==
    [els |-> <<[Radio(<<"c","o","l","o","r">>, <<"R","e","d">>, 1) EXCEPT !.visible = TRUE, !.dist = 2],
               [Radio(<<"c","o","l","o","r">>, <<"G","r","e","e","n">>, 1) EXCEPT !.visible = TRUE],
               [Radio(<<"c","o","l","o","r">>, <<"B","l","u","e">>, 0) EXCEPT !.visible = TRUE]>>,
     forms |-> <<TRUE>>, block |-> {1, 2, 3}, focus |-> {2},
     value0 |-> <<<<"o","n">>, <<"o","n">>, <<"o","n">>>>,
     answers |-> ChoiceAnswers({<<"g","r","o","u","p",":","r","a","d","i","o",":","0">>, <<"s","e","l",":","r","a","d","i","o",":","0">>, <<"c","o","l","o","r">>},
                               StrVals({<<"G","r","e","e","n">>, <<"b","l","u","e">>, <<"z","z","z">>})
                                 \cup {Arr(<<<<"G","r","e","e","n">>, <<"b","l","u","e">>>>)})]

\* two radios without a name inside <fieldset role="radiogroup"> with
\* legend "Pick"
PageLegend ==
    [els |-> <<[Radio(<<>>, <<"Y","e","s">>, 0) EXCEPT !.visible = TRUE, !.legend = <<"P","i","c","k">>, !.rgroup = 1],
               [Radio(<<>>, <<" ","N","o"," ">>, 0) EXCEPT !.visible = TRUE, !.legend = <<"P","i","c","k">>, !.rgroup = 1]>>,
     forms |-> <<>>, block |-> {1, 2}, focus |-> {},
     value0 |-> <<<<"o","n">>, <<"o","n">>>>,
     answers |-> ChoiceAnswers({<<"g","r","o","u","p",":","r","a","d","i","o",":","0">>, <<"p","i","c","k">>, <<"q","9">>},
                               StrVals({<<"Y","e","s">>, <<"N","o">>, <<"z","z","z">>}))]

\* three checkboxes named "t" inside form 1, which has no submit control;
\* the inputs are visually replaced by their styled labels
PageBoxes ==
    [els |-> <<[Radio(<<"t">>, <<"R","e","d">>, 1) EXCEPT !.type = S_checkbox],
               [Radio(<<"t">>, <<"B","l","u","e">>, 1) EXCEPT !.type = S_checkbox],
               [Radio(<<"t">>, <<"D","a","r","k"," ","r","e","d">>, 1) EXCEPT !.type = S_checkbox]>>,
     forms |-> <<FALSE>>, block |-> {1, 2, 3}, focus |-> {},
     value0 |-> <<<<"o","n">>, <<"o","n">>, <<"o","n">>>>,
     answers |-> ChoiceAnswers({<<"g","r","o","u","p",":","c","h","e","c","k","b","o","x",":","0">>, <<"n","o","k","e","y">>},
                               StrVals({<<"B","l","u","e">>, <<"z","z","z">>})
                                 \cup ArrVals({<<"R","e","d">>, <<"r","e","d">>, <<"B","l","u","e">>, <<"z","z","z">>}))]

RoleRadio(label, rg) ==
    [E0 EXCEPT !.tag = S_div, !.role = S_radio, !.aria = label, !.rgroup = rg,
               !.rgLabel = <<"S","i","z","e">>, !.dist = rg]

\* ARIA radios: two in one radiogroup, a third in a second radiogroup that
\* carries the same aria-label
PageRole ==
    [els |-> <<RoleRadio(<<"S">>, 1), RoleRadio(<<"M">>, 1), RoleRadio(<<"L">>, 2)>>,
     forms |-> <<>>, block |-> {1, 2, 3}, focus |-> {},
     value0 |-> <<<<>>, <<>>, <<>>>>,
     answers |-> ChoiceAnswers({<<"g","r","o","u","p",":","r","a","d","i","o",":","0">>}, StrVals({<<"S">>, <<"M">>, <<"L">>}))]

\* text controls: an e-mail input in form 1 (with a submit button), a textarea
\* in form 2 (without one), a hidden telephone input and an editable div
PageText ==
    [els |-> <<[E0 EXCEPT !.type = <<"e","m","a","i","l">>, !.name = <<"e","m","a","i","l">>, !.ph = <<"E","-","m","a","i","l">>,
                          !.form = 1],
               [E0 EXCEPT !.tag = S_textarea, !.name = <<"b","i","o">>, !.htmlId = <<"b","i","o">>,
                          !.forLabel = <<"A","b","o","u","t"," ","y","o","u">>, !.form = 2],
               [E0 EXCEPT !.type = S_text, !.name = <<"t","e","l">>, !.visible = FALSE],
               [E0 EXCEPT !.tag = S_div, !.editable = TRUE, !.aria = <<"N","o","t","e","s">>]>>,
     forms |-> <<TRUE, FALSE>>, block |-> {}, focus |-> {1},
     value0 |-> <<<<"o","l","d">>, <<>>, <<>>, <<>>>>,
     answers |-> FieldAnswers({<<"e","m","a","i","l">>, <<"e"," ","m","a","i","l">>, <<"B","I","O">>, <<"t","e","l">>,
                               <<"n","a","m","e",":","e","m","a","i","l","|","p","h",":","E","-","m","a","i","l","|","t","y","p","e",":","e","m","a","i","l","|","i","d","x",":","0">>},
                              {<<"a","@","b",".","c">>})
                 \cup {ListAnswers(<<Item(<<"n","o","p","e">>, -2, <<>>, <<>>, <<>>, Str(<<"h","i">>))>>)}
                 \cup {ObjAnswers(FALSE, <<>>, TRUE,
                                  <<Entry(<<"b","i","o">>, Str(<<"h","i">>)), Entry(<<"e","m","a","i","l">>, Str(<<"a","@","b",".","c">>))>>, <<>>),
                       ObjAnswers(FALSE, <<>>, TRUE,
                                  <<Entry(<<"e","m","a","i","l">>, Str(<<"a","@","b",".","c">>)), Entry(<<"A","b","o","u","t"," ","y","o","u">>, Str(<<"h","i">>))>>, <<>>),
                       ObjAnswers(FALSE, <<>>, TRUE,
                                  <<Entry(<<"e","m","a","i","l">>, Str(<<"h","i">>)), Entry(<<"e"," ","m","a","i","l">>, Str(<<"h","i">>))>>, <<>>),
                       ObjAnswers(FALSE, <<>>, FALSE, <<>>,
                                  <<Entry(<<"n","o","t","e","s">>, Str(<<"h","i">>)), Entry(<<"N","o","t","e","s">>, Str(<<"h","i">>))>>)}]

\* a text input with the placeholder "Choices" and a yes/no radio pair in one
\* form with a submit button
PageMixed ==
    [els |-> <<[E0 EXCEPT !.type = S_text, !.name = <<"q">>, !.ph = <<"C","h","o","i","c","e","s">>, !.form = 1],
               [Radio(<<"y","n">>, <<"Y","e","s">>, 1) EXCEPT !.visible = TRUE, !.dist = 1],
               [Radio(<<"y","n">>, <<"N","o">>, 1) EXCEPT !.visible = TRUE, !.dist = 1]>>,
     forms |-> <<TRUE>>, block |-> {}, focus |-> {1, 3},
     value0 |-> <<<<>>, <<"o","n">>, <<"o","n">>>>,
     answers |-> {ObjAnswers(TRUE, <<Entry(k, Str(v))>>, TRUE, <<Entry(<<"q">>, Str(<<"4","2">>))>>, <<>>) :
                     k \in {<<"g","r","o","u","p",":","r","a","d","i","o",":","0">>, <<"y","n">>}, v \in {<<"N","o">>, <<"z","z","z">>}}
                 \cup {ObjAnswers(TRUE, <<Entry(<<"g","r","o","u","p",":","r","a","d","i","o",":","0">>, Str(<<"y","e","s">>))>>, FALSE, <<>>, <<>>),
                       ObjAnswers(FALSE, <<>>, FALSE, <<>>,
                                  <<Entry(<<"q">>, Str(<<"4","2">>)), Entry(<<"g","r","o","u","p",":","r","a","d","i","o",":","0">>, Str(<<"N","o">>))>>),
                       ObjAnswers(FALSE, <<>>, TRUE, <<Entry(<<"Y","N">>, Str(<<"x">>))>>, <<>>)}]

\* two radiogroups of ARIA radios, "Pay" and "Ship"; the first radio of
\* "Pay" is a form element with role="radio" that holds a control named
\* "hasAttribute"
PageClobber ==
    [els |-> <<[RoleRadio(<<"C","a","r","d">>, 1) EXCEPT !.tag = <<"f","o","r","m">>, !.rgLabel = <<"P","a","y">>,
                                               !.clobbered = TRUE],
               [RoleRadio(<<"C","a","s","h">>, 1) EXCEPT !.rgLabel = <<"P","a","y">>],
               [RoleRadio(<<"P","o","s","t">>, 2) EXCEPT !.rgLabel = <<"S","h","i","p">>],
               [RoleRadio(<<"P","i","c","k","u","p">>, 2) EXCEPT !.rgLabel = <<"S","h","i","p">>]>>,
     forms |-> <<>>, block |-> {}, focus |-> {},
     value0 |-> <<<<>>, <<>>, <<>>, <<>>>>,
     answers |-> {ObjAnswers(TRUE, <<Entry(<<"g","r","o","u","p",":","r","a","d","i","o",":","0">>, Str(v)), Entry(<<"g","r","o","u","p",":","r","a","d","i","o",":","1">>, Str(<<"P","o","s","t">>))>>,
                             FALSE, <<>>, <<>>) : v \in {<<"C","a","r","d">>, <<"C","a","s","h">>}}
                 \cup {ObjAnswers(TRUE, <<Entry(<<"g","r","o","u","p",":","r","a","d","i","o",":","1">>, Str(<<"P","i","c","k","u","p">>)), Entry(<<"g","r","o","u","p",":","r","a","d","i","o",":","0">>, Str(<<"C","a","r","d">>))>>,
                                  FALSE, <<>>, <<>>),
                       ObjAnswers(TRUE, <<Entry(<<"g","r","o","u","p",":","r","a","d","i","o",":","1">>, Str(<<"P","o","s","t">>))>>, FALSE, <<>>, <<>>)}]

\* a date input (no text candidate of collectSchema, but focusable) and a
\* yes/no radio pair
PageDate ==
    [els |-> <<[E0 EXCEPT !.type = <<"d","a","t","e">>, !.name = <<"w","h","e","n">>],
               [Radio(<<"y","n">>, <<"Y","e","s">>, 0) EXCEPT !.visible = TRUE],
               [Radio(<<"y","n">>, <<"N","o">>, 0) EXCEPT !.visible = TRUE]>>,
     forms |-> <<>>, block |-> {2, 3}, focus |-> {1},
     value0 |-> <<<<>>, <<"o","n">>, <<"o","n">>>>,
     answers |-> ChoiceAnswers({<<"g","r","o","u","p",":","r","a","d","i","o",":","0">>, <<"s","e","l",":","r","a","d","i","o",":","0">>}, StrVals({<<"N","o">>}))
                 \cup FieldAnswers({<<"w","h","e","n">>}, {<<"x">>})]

\* two fieldsets with the legends "Food" and "Pets", each holding one
\* checkbox without name or id inside its label
PageSets ==
    [els |-> <<[E0 EXCEPT !.type = S_checkbox, !.wrapLabel = <<"H","a","m">>, !.legend = <<"F","o","o","d">>],
               [E0 EXCEPT !.type = S_checkbox, !.wrapLabel = <<"D","o","g">>, !.legend = <<"P","e","t","s">>]>>,
     forms |-> <<>>, block |-> {1, 2}, focus |-> {},
     value0 |-> <<<<"o","n">>, <<"o","n">>>>,
     answers |-> ChoiceAnswers({<<"g","r","o","u","p",":","c","h","e","c","k","b","o","x",":","0">>, <<"P","e","t","s">>},
                               ArrVals({<<"H","a","m">>, <<"D","o","g">>}))]

PageNames == {"color", "legend", "boxes", "role", "text", "mixed", "clobber", "sets"}

\* the pages of the session specification
SessionPages == {"date"}

PageTable ==
    [n \in PageNames \cup SessionPages |->
       IF n = "color" THEN PageColor
       ELSE IF n = "legend" THEN PageLegend
       ELSE IF n = "boxes" THEN PageBoxes
       ELSE IF n = "role" THEN PageRole
       ELSE IF n = "text" THEN PageText
       ELSE IF n = "mixed" THEN PageMixed
       ELSE IF n = "clobber" THEN PageClobber
       ELSE IF n = "sets" THEN PageSets
       ELSE PageDate]

\* ------------------------------------------------------------------------
\* State
\* ------------------------------------------------------------------------
VARIABLES
    page,        \* the name of the page the content script runs on
    checked,     \* el.checked of every control
    aria,        \* aria-checked = "true" of every control
    value,       \* el.value / textContent of every control
    tags,        \* data-autoanswer-id / -group / -label of every control
    ev,          \* events dispatched on every control
    clicks,      \* submitBtn.click() calls per form
    submits,     \* form.submit() calls per form
    autoSubmit,  \* chrome.storage.sync autoSubmit
    hasSel,      \* whether the user has a text selection
    active,      \* document.activeElement (0: none of the controls)
    pc,          \* where the listener's async function stands
    skipSubmit,  \* message.skipSubmit of the trigger
    fill,        \* the locals of the latest fillAnswers call
    snap,        \* checked/aria/value when the current strategy started
    log,         \* what the strategies of the trigger did, in order
    resp,        \* what sendResponse was called with
    round,       \* the number of the trigger in the session
    other,       \* the listener's second invocation, while two are in flight
    logBuffer,   \* chrome.storage.local __logBuffer (background.js)
    writers,     \* the writeLog calls in progress: position, entry, next
    calls,       \* the number of writeLog calls started
    fin,         \* the writeLog call that completed last
    cmd,         \* the commands.onCommand listener: position, messages sent
    injected,    \* whether the active tab runs the content script
    credits,     \* the user's creditsBalance at the backend
    db,          \* the backend's Postgres tables (the one user's rows)
    store,       \* the backend's store.json
    reqs,        \* the backend's request handlers between their awaits
    hist,        \* what was sent to the backend
    mOpts, mVal, mRes, mDone   \* a direct application of selectBy

docVars == <<checked, aria, value, tags, ev, clicks, submits>>
logVars == <<logBuffer, writers, calls, fin>>
cmdVars == <<cmd, injected, credits>>
srvVars == <<db, store, reqs, hist>>
envVars == <<page, autoSubmit, hasSel, active, round, other, logVars, cmdVars, srvVars>>
matchVars == <<mOpts, mVal, mRes, mDone>>
vars == <<page, checked, aria, value, tags, ev, clicks, submits, autoSubmit, hasSel,
          active, pc, skipSubmit, fill, snap, log, resp, round, other, logBuffer,
          writers, calls, fin, cmd, injected, credits, db, store, reqs, hist, mOpts,
          mVal, mRes, mDone>>

\* the page's markup
PG == PageTable[page]

Els == DOMAIN PG.els

\* el.checked for a native control, aria-checked for a role-based one
Selected(e) == IF PG.els[e].role # <<>> THEN aria[e] ELSE checked[e]

Doc == [checked |-> checked, aria |-> aria, value |-> value]

NoResp == [sent |-> FALSE, ok |-> FALSE, filled |-> 0, submitted |-> FALSE]

NoFill == [applied |-> FALSE, done |-> FALSE, strat |-> "none",
           answers |-> NullAnswers, skip |-> FALSE, tags |-> <<>>, pre |-> <<>>,
           filled |-> 0, touched |-> <<>>, marks |-> <<>>, submitted |-> FALSE,
           threw |-> FALSE]

\* the radio button groups the browser keeps exclusive hold at most one
\* checked member; only a control of the matching kind can be checked
InitDoc(name) ==
    /\ page = name
    /\ LET pg == PageTable[name] IN
       /\ checked \in {c \in [DOMAIN pg.els -> BOOLEAN] :
                         \A e \in DOMAIN pg.els :
                            c[e] => /\ IsNativeChoice(pg.els[e])
                                    /\ \A n \in BrowserRadioPeers(pg.els, e) : ~c[n]}
       /\ aria \in {a \in [DOMAIN pg.els -> BOOLEAN] :
                         \A e \in DOMAIN pg.els : a[e] => pg.els[e].role # <<>>}
       /\ value = pg.value0
       /\ tags = [e \in DOMAIN pg.els |-> NoTag]
       /\ ev = [e \in DOMAIN pg.els |-> [input |-> 0, change |-> 0, click |-> 0]]
       /\ clicks = [f \in DOMAIN pg.forms |-> 0]
       /\ submits = [f \in DOMAIN pg.forms |-> 0]

NeverLeft == [pc |-> "none", tags |-> <<>>]

\* no second invocation
NoOther ==
    [pc |-> "none", skipSubmit |-> FALSE, fill |-> NoFill, snap |-> <<>>, log |-> <<>>,
     resp |-> NoResp, round |-> 0, tags |-> <<>>, back |-> NeverLeft]

\* the locals of the running invocation of the listener's async function, as
\* they are kept while it waits; tags: the data-autoanswer-* attributes of the
\* document at the time it is left; back: where the invocation that runs
\* instead stood when it was left, and the attributes of the document then
Invocation(bk) ==
    [pc |-> pc, skipSubmit |-> skipSubmit, fill |-> fill, snap |-> snap, log |-> log,
     resp |-> resp, round |-> round, tags |-> tags, back |-> bk]

\* the two writeLog calls that can be in progress at a time
Writers == {1, 2}

NoCall == [pc |-> "idle", entry |-> 0, next |-> <<>>, alone |-> TRUE, before |-> <<>>]

NoFin == [entry |-> 0, alone |-> TRUE, stored |-> FALSE, before |-> <<>>]

\* the background worker has logged nothing
InitNoLog ==
    /\ logBuffer = <<>>
    /\ writers = [w \in Writers |-> NoCall]
    /\ calls = 0
    /\ fin = NoFin

\* reply: what the await of the first tabs.sendMessage gave; posts: the
\* POST /usage/log requests made; msgs: the skipSubmit of every captureAndFill
\* message sent, in order
NoCmd == [pc |-> "idle", reply |-> "none", posts |-> 0, msgs |-> <<>>]

\* no keyboard command is given
InitNoCmd ==
    /\ cmd = NoCmd
    /\ injected = TRUE
    /\ credits = 0

\* the request handlers that can be between two awaits at a time
Handlers == {1, 2}

NoReq == [pc |-> "idle", key |-> 0, seen |-> <<>>]

\* users.credits_balance, usage_logs.request_id, payments.provider_ref and
\* the number of credit_adjustments rows; on: DATABASE_URL is set
Tables(on, balance) ==
    [on |-> on, credits |-> balance, usage |-> <<>>, payments |-> <<>>, adjustments |-> 0]

\* store.json: the user's creditsBalance, webhookEvents, the payments
StoreFile(balance) == [credits |-> balance, webhookEvents |-> <<>>, payments |-> <<>>]

\* the balance at the start, the keys of what was delivered, the requests
\* received, the configuration of the payment providers
History(balance, cfg) == [start |-> balance, keys |-> {}, n |-> 0, conf |-> cfg]

NoConf == [stripe |-> FALSE, razorpay |-> FALSE]

\* the backend receives nothing
InitNoServer ==
    /\ db = Tables(FALSE, 0)
    /\ store = StoreFile(0)
    /\ reqs = [h \in Handlers |-> NoReq]
    /\ hist = History(0, NoConf)

InitProc ==
    /\ round = 1
    /\ other = NoOther
    /\ InitNoLog
    /\ InitNoCmd
    /\ InitNoServer
    /\ pc = "idle"
    /\ skipSubmit = FALSE
    /\ fill = NoFill
    /\ snap = Doc
    /\ log = <<>>
    /\ resp = NoResp

InitNoMatch ==
    /\ mOpts = <<>>
    /\ mVal = <<>>
    /\ mRes = 0
    /\ mDone = FALSE

Init ==
    /\ \E name \in PageNames : InitDoc(name)
    /\ autoSubmit \in BOOLEAN
    /\ hasSel \in {s \in BOOLEAN : s => PG.block # {}}
    /\ active \in {0} \cup PG.focus
    /\ InitProc
    /\ InitNoMatch

\* ------------------------------------------------------------------------
\* Provider replies (background.js message handlers, the provider behind)
\* ------------------------------------------------------------------------
\* status "ok": {ok: true, ...};  "rejected": {ok: false, error};
\* "transport": chrome.runtime.sendMessage rejects
FocusedAnswers == {<<"h","e","l","l","o">>, <<>>}

Replies ==
    {[status |-> "ok", answers |-> a, answer |-> <<>>] : a \in PG.answers \cup {NullAnswers}}
    \cup {[status |-> st, answers |-> NullAnswers, answer |-> <<>>] :
             st \in {"rejected", "transport"}}

FocusedReplies ==
    {[status |-> "ok", answers |-> NullAnswers, answer |-> t] : t \in FocusedAnswers}
    \cup {[status |-> st, answers |-> NullAnswers, answer |-> <<>>] :
             st \in {"rejected", "transport"}}

\* the reply check left out
ResponseAlwaysOk(r) == TRUE

\* if (!response?.ok) throw ...
ResponseOk(r) == r.status = "ok"

\* callAiChoicesForSelection: choices = answers?.choices || answers || {}
\* and the caller's fillAnswers({ choices })
ChoicesOfAnswers(a) ==
    IF a.shape = "object" /\ a.hasChoices THEN a.choices
    ELSE IF a.shape = "object"
    THEN (IF a.hasFields THEN <<Entry(<<"f","i","e","l","d","s">>, [kind |-> "other", vals |-> <<>>])>>
          ELSE <<>>) \o a.top
    ELSE IF a.shape = "list"
    THEN [i \in 1..Len(a.list) |-> Entry(NumStr(i - 1), [kind |-> "other", vals |-> <<>>])]
    ELSE <<>>

SelectionPayload(a) == ObjAnswers(TRUE, ChoicesOfAnswers(a), FALSE, <<>>, <<>>)

\* ------------------------------------------------------------------------
\* The captureAndFill listener: one trigger, strategy by strategy.  Each
\* action runs the code between two awaits.
\* ------------------------------------------------------------------------
\* log records what each strategy did: "start", "request" (sendMessage to the
\* provider), "fail" (the provider's reply is not ok, or sendMessage
\* rejected), "throw" (fillAnswers rejected), "na" (the strategy found nothing
\* to work on), "nofill" (fillAnswers filled nothing), "ok" (success)
LogEv(kind, strat) == [ev |-> kind, strat |-> strat]

Sent(ok, filled, submitted) ==
    [sent |-> TRUE, ok |-> ok, filled |-> filled, submitted |-> submitted]

\* the chain skipping the viewport strategy
AfterFailureSkipView(strat) ==
    IF strat = "sel" THEN "focus"
    ELSE IF strat = "view" THEN "focus"
    ELSE "full"

\* the listener's chain: where the trigger goes when a strategy reports
\* { ok: false }
AfterFailure(strat) ==
    IF strat = "sel" THEN "view"
    ELSE IF strat = "view" THEN "focus"
    ELSE "full"

\* the log entry for a reply the provider did not answer successfully
ReplyLog(r, strat) ==
    IF r.status = "ok" THEN <<>> ELSE <<LogEv("fail", strat)>>

\* fillAnswers rejected: the strategy's catch, or the listener's, takes over
ThrowLog(threw, strat) ==
    IF threw THEN <<LogEv("throw", strat)>> ELSE <<>>

\* the message arrives: { type: "captureAndFill", skipSubmit }
Trigger(skip) ==
    /\ pc = "idle"
    /\ pc' = "sel"
    /\ skipSubmit' = skip
    /\ UNCHANGED <<docVars, envVars, fill, snap, log, resp, matchVars>>

\* what fillAnswers has written and counted when its loops end
FillResult(strat, answers, st) ==
    /\ checked' = st.checked
    /\ aria' = st.aria
    /\ value' = st.value
    /\ ev' = st.ev
    /\ tags' = IF answers.shape = "null" THEN tags
               ELSE IndexLabelTags(PG.els, tags)
    /\ fill' = [applied |-> TRUE, done |-> FALSE, strat |-> strat,
                answers |-> answers, skip |-> skipSubmit, tags |-> tags,
                pre |-> [checked |-> checked, aria |-> aria, value |-> value,
                         ev |-> ev],
                filled |-> st.filled, touched |-> st.touched,
                marks |-> st.marks, submitted |-> FALSE, threw |-> st.threw]

\* fillAnswers from its start to the await of chrome.storage.sync.get, or
\* to the exception document.querySelector throws on an invalid selector or
\* ensureChecked raises on a clobbered control
BeginFill(strat, answers) ==
    FillResult(strat, answers,
               FillMutate(PG.els, buildFieldIndex(PG.els, tags),
                          [checked |-> checked, aria |-> aria, value |-> value,
                           ev |-> ev, filled |-> 0, touched |-> <<>>,
                           marks |-> <<>>, hit |-> FALSE, threw |-> FALSE],
                          answers, skipSubmit))

\* submitting every touched form instead of the first
SubmitAllTouched(auto, skip, touched) ==
    IF auto /\ ~skip THEN Range(touched) ELSE {}

\* the forms fillAnswers submits: the first touched one, when auto-submit is
\* on and silent application was not requested
SubmitTargets(auto, skip, touched) ==
    IF auto /\ ~skip /\ touched # <<>> THEN {touched[1]} ELSE {}

\* fillAnswers after the await: submitBtn.click() or form.submit()
EndFill ==
    LET targets == SubmitTargets(autoSubmit, fill.skip, fill.touched)
    IN  /\ clicks' = [f \in DOMAIN clicks |->
                        IF f \in targets /\ PG.forms[f] THEN clicks[f] + 1 ELSE clicks[f]]
        /\ submits' = [f \in DOMAIN submits |->
                        IF f \in targets /\ ~PG.forms[f] THEN submits[f] + 1 ELSE submits[f]]
        /\ fill' = [fill EXCEPT !.done = TRUE, !.submitted = (targets # {})]

\* fillSelectionChoicesIfAny up to its sendMessage
SelStart ==
    /\ pc = "sel"
    /\ snap' = Doc
    /\ IF hasSel /\ SelectionInputs(PG.els, PG.block) # <<>>
       THEN /\ tags' = collectSelection(PG.els, tags, PG.block).tags
            /\ pc' = "selWait"
            /\ log' = log \o <<LogEv("start", "sel"), LogEv("request", "sel")>>
       ELSE /\ tags' = tags
            /\ pc' = AfterFailure("sel")
            /\ log' = log \o <<LogEv("start", "sel"), LogEv("na", "sel")>>
    /\ fill' = NoFill
    /\ UNCHANGED <<checked, aria, value, ev, clicks, submits, envVars, skipSubmit,
                   resp, matchVars>>

\* the provider's answer to the selection request arrives
SelReply(r) ==
    /\ pc = "selWait"
    /\ IF ResponseOk(r)
       THEN /\ BeginFill("sel", SelectionPayload(r.answers))
            /\ pc' = IF fill'.threw THEN AfterFailure("sel") ELSE "selFill"
            /\ log' = log \o ReplyLog(r, "sel") \o ThrowLog(fill'.threw, "sel")
       ELSE /\ pc' = AfterFailure("sel")
            /\ log' = log \o ReplyLog(r, "sel")
            /\ UNCHANGED <<checked, aria, value, ev, tags, fill>>
    /\ UNCHANGED <<clicks, submits, envVars, skipSubmit, snap, resp, matchVars>>

SelFinish ==
    /\ pc = "selFill"
    /\ EndFill
    /\ IF fill.filled > 0
       THEN /\ resp' = Sent(TRUE, 1, FALSE)
            /\ pc' = "done"
            /\ log' = Append(log, LogEv("ok", "sel"))
       ELSE /\ resp' = resp
            /\ pc' = AfterFailure("sel")
            /\ log' = Append(log, LogEv("nofill", "sel"))
    /\ UNCHANGED <<checked, aria, value, ev, tags, envVars, skipSubmit, snap, matchVars>>

\* document.querySelector(`[data-autoanswer-id="${id}"]`): 0 when none
QueryById(tg, id) ==
    LET hits == {e \in DOMAIN tg : tg[e].id = id}
    IN  IF hits = {} THEN 0 ELSE First(hits)

\* the groups fillViewportChoicesIfAny keeps, and the one nearest the centre
ViewportGroupInfo(pg, tg, groups) ==
    SortedSeq({g \in DOMAIN groups :
                 LET el == QueryById(tg, groups[g].options[1].id)
                 IN  el # 0 /\ isVisible(pg[el])})

ViewportBest(pg, tg, groups) ==
    LET info == ViewportGroupInfo(pg, tg, groups)
        d(g) == pg[QueryById(tg, groups[g].options[1].id)].dist
        best == {g \in Range(info) : \A h \in Range(info) : d(g) <= d(h)}
    IN  First(best)

\* fillViewportChoicesIfAny up to its sendMessage
ViewStart ==
    /\ pc = "view"
    /\ snap' = Doc
    /\ LET d == collectSchema(PG.els, tags)
       IN  /\ tags' = d.tags
           /\ IF ViewportGroupInfo(PG.els, d.tags, d.choiceGroups) # <<>>
              THEN /\ pc' = "viewWait"
                   /\ log' = log \o <<LogEv("start", "view"), LogEv("request", "view")>>
              ELSE /\ pc' = AfterFailure("view")
                   /\ log' = log \o <<LogEv("start", "view"), LogEv("na", "view")>>
    /\ fill' = NoFill
    /\ UNCHANGED <<checked, aria, value, ev, clicks, submits, envVars, skipSubmit,
                   resp, matchVars>>

ViewReply(r) ==
    /\ pc = "viewWait"
    /\ IF ResponseOk(r)
       THEN /\ BeginFill("view", SelectionPayload(r.answers))
            /\ pc' = IF fill'.threw THEN AfterFailure("view") ELSE "viewFill"
            /\ log' = log \o ReplyLog(r, "view") \o ThrowLog(fill'.threw, "view")
       ELSE /\ pc' = AfterFailure("view")
            /\ log' = log \o ReplyLog(r, "view")
            /\ UNCHANGED <<checked, aria, value, ev, tags, fill>>
    /\ UNCHANGED <<clicks, submits, envVars, skipSubmit, snap, resp, matchVars>>

ViewFinish ==
    /\ pc = "viewFill"
    /\ EndFill
    /\ IF fill.filled > 0
       THEN /\ resp' = Sent(TRUE, 1, FALSE)
            /\ pc' = "done"
            /\ log' = Append(log, LogEv("ok", "view"))
       ELSE /\ resp' = resp
            /\ pc' = AfterFailure("view")
            /\ log' = Append(log, LogEv("nofill", "view"))
    /\ UNCHANGED <<checked, aria, value, ev, tags, envVars, skipSubmit, snap, matchVars>>

\* active.matches('input, textarea') || active.hasAttribute('contenteditable')
FocusTarget(pg, a) ==
    IF a # 0 /\ (pg[a].tag \in {S_input, S_textarea} \/ pg[a].editable) THEN a ELSE 0

\* fillFocusedFieldIfAny up to its sendMessage
FocusStart ==
    /\ pc = "focus"
    /\ snap' = Doc
    /\ LET target == FocusTarget(PG.els, active)
       IN  IF target # 0
           THEN /\ tags' = [tags EXCEPT ![target].id = generateFieldId(PG.els[target], 0)]
                /\ pc' = "focusWait"
                /\ log' = log \o <<LogEv("start", "focus"), LogEv("request", "focus")>>
           ELSE /\ tags' = tags
                /\ pc' = AfterFailure("focus")
                /\ log' = log \o <<LogEv("start", "focus"), LogEv("na", "focus")>>
    /\ fill' = NoFill
    /\ UNCHANGED <<checked, aria, value, ev, clicks, submits, envVars, skipSubmit,
                   resp, matchVars>>

\* the focused answer arrives; a failure is thrown to the listener's catch
FocusReply(r) ==
    /\ pc = "focusWait"
    /\ IF ResponseOk(r)
       THEN LET st0 == [value |-> value, ev |-> ev]
                st  == setElementValue(PG.els, st0, FocusTarget(PG.els, active),
                                       r.answer, FALSE)
            IN  /\ value' = st.value
                /\ ev' = st.ev
                /\ resp' = Sent(TRUE, 1, FALSE)
                /\ log' = log \o ReplyLog(r, "focus") \o <<LogEv("ok", "focus")>>
       ELSE /\ resp' = Sent(FALSE, 0, FALSE)
            /\ log' = log \o ReplyLog(r, "focus")
            /\ UNCHANGED <<value, ev>>
    /\ pc' = "done"
    /\ UNCHANGED <<checked, aria, tags, clicks, submits, envVars, skipSubmit, fill,
                   snap, matchVars>>

\* captureAndFill up to its sendMessage
FullStart ==
    /\ pc = "full"
    /\ snap' = Doc
    /\ tags' = collectSchema(PG.els, tags).tags
    /\ pc' = "fullWait"
    /\ log' = log \o <<LogEv("start", "full"), LogEv("request", "full")>>
    /\ fill' = NoFill
    /\ UNCHANGED <<checked, aria, value, ev, clicks, submits, envVars, skipSubmit,
                   resp, matchVars>>

FullReply(r) ==
    /\ pc = "fullWait"
    /\ IF ResponseOk(r)
       THEN /\ BeginFill("full", r.answers)
            /\ pc' = IF fill'.threw THEN "done" ELSE "fullFill"
            /\ resp' = IF fill'.threw THEN Sent(FALSE, 0, FALSE) ELSE resp
            /\ log' = log \o ReplyLog(r, "full") \o ThrowLog(fill'.threw, "full")
       ELSE /\ pc' = "done"
            /\ resp' = Sent(FALSE, 0, FALSE)
            /\ log' = log \o ReplyLog(r, "full")
            /\ UNCHANGED <<checked, aria, value, ev, tags, fill>>
    /\ UNCHANGED <<clicks, submits, envVars, skipSubmit, snap, matchVars>>

FullFinish ==
    /\ pc = "fullFill"
    /\ EndFill
    /\ resp' = Sent(TRUE, fill.filled,
                    SubmitTargets(autoSubmit, fill.skip, fill.touched) # {})
    /\ pc' = "done"
    /\ log' = Append(log, LogEv("ok", "full"))
    /\ UNCHANGED <<checked, aria, value, ev, tags, envVars, skipSubmit, snap, matchVars>>

\* the listener's async function after the message was received
Run ==
    \/ SelStart
    \/ \E r \in Replies : SelReply(r)
    \/ SelFinish
    \/ ViewStart
    \/ \E r \in Replies : ViewReply(r)
    \/ ViewFinish
    \/ FocusStart
    \/ \E r \in FocusedReplies : FocusReply(r)
    \/ FullStart
    \/ \E r \in Replies : FullReply(r)
    \/ FullFinish

Next ==
    \/ \E skip \in BOOLEAN : Trigger(skip)
    \/ Run

Spec == Init /\ [][Next]_vars

\* ------------------------------------------------------------------------
\* A session: several triggers on one page.  Between two triggers the user
\* may move the focus and change the selection; the document keeps what the
\* earlier triggers wrote, the data-autoanswer-* attributes included.
\* ------------------------------------------------------------------------
MaxTriggers == 2

InitSession ==
    /\ \E name \in SessionPages : InitDoc(name)
    /\ autoSubmit \in BOOLEAN
    /\ hasSel \in {s \in BOOLEAN : s => PG.block # {}}
    /\ active \in {0} \cup PG.focus
    /\ InitProc
    /\ InitNoMatch

\* the next captureAndFill message arrives after the listener answered
NextTrigger(skip, sel, act) ==
    /\ pc = "done"
    /\ round < MaxTriggers
    /\ round' = round + 1
    /\ hasSel' = sel
    /\ active' = act
    /\ skipSubmit' = skip
    /\ pc' = "sel"
    /\ fill' = NoFill
    /\ snap' = Doc
    /\ log' = <<>>
    /\ resp' = NoResp
    /\ UNCHANGED <<docVars, page, autoSubmit, other, logVars, srvVars, cmdVars, matchVars>>

NextSession ==
    \/ Next
    \/ \E skip \in BOOLEAN, sel \in {s \in BOOLEAN : s => PG.block # {}},
          act \in {0} \cup PG.focus : NextTrigger(skip, sel, act)

SpecSession == InitSession /\ [][NextSession]_vars

\* ------------------------------------------------------------------------
\* Two triggers in flight.  The listener starts an async function per
\* message and returns; nothing keeps a second captureAndFill message from
\* being handled while the first invocation awaits chrome.runtime.sendMessage.
\* The variables pc .. resp hold the invocation whose continuation runs,
\* "other" the one that is waiting or has answered.  An invocation is left
\* only at an await of sendMessage.  The first trigger is issued on the page
\* as loaded, nothing selected or focused; the user may move the selection
\* and the focus before the second trigger.
\* ------------------------------------------------------------------------
OverlapPages == {"date"}

Waits == {"selWait", "viewWait", "focusWait", "fullWait"}

InitOverlap ==
    /\ \E name \in OverlapPages : InitDoc(name)
    /\ \A e \in Els : ~checked[e]
    /\ autoSubmit = FALSE
    /\ hasSel = FALSE
    /\ active = 0
    /\ InitProc
    /\ InitNoMatch

\* a second captureAndFill message is handled while the first invocation
\* awaits the provider: the first is set aside, the second starts
Overlap(skip, sel, act) ==
    /\ pc \in Waits
    /\ other.pc = "none"
    /\ round < MaxTriggers
    /\ pc = "focusWait" => act = active
    /\ other' = Invocation(NeverLeft)
    /\ round' = round + 1
    /\ hasSel' = sel
    /\ active' = act
    /\ skipSubmit' = skip
    /\ pc' = "sel"
    /\ fill' = NoFill
    /\ snap' = Doc
    /\ log' = <<>>
    /\ resp' = NoResp
    /\ UNCHANGED <<docVars, page, autoSubmit, logVars, srvVars, cmdVars, matchVars>>

\* the record of the invocation that is resumed, as the other keeps it:
\* where it stood and what the document carried when it was left
Resume(inv) == [pc |-> inv.pc, tags |-> inv.tags]

\* every invocation finding the attributes its own discovery pass wrote
SwitchOwnTags ==
    /\ other.pc \in Waits
    /\ pc \in Waits \cup {"done"}
    /\ other' = Invocation(Resume(other))
    /\ pc' = other.pc
    /\ skipSubmit' = other.skipSubmit
    /\ fill' = other.fill
    /\ snap' = other.snap
    /\ log' = other.log
    /\ resp' = other.resp
    /\ round' = other.round
    /\ tags' = other.tags
    /\ UNCHANGED <<checked, aria, value, ev, clicks, submits, page, autoSubmit, hasSel,
                   active, logVars, srvVars, cmdVars, matchVars>>

\* the provider's reply to the waiting invocation arrives while the running
\* one awaits its own reply or has answered: the two change places
Switch ==
    /\ other.pc \in Waits
    /\ pc \in Waits \cup {"done"}
    /\ other' = Invocation(Resume(other))
    /\ pc' = other.pc
    /\ skipSubmit' = other.skipSubmit
    /\ fill' = other.fill
    /\ snap' = other.snap
    /\ log' = other.log
    /\ resp' = other.resp
    /\ round' = other.round
    /\ UNCHANGED <<docVars, page, autoSubmit, hasSel, active, logVars, srvVars, cmdVars, matchVars>>

NextOverlap ==
    \/ Next
    \/ \E skip \in BOOLEAN, sel \in {s \in BOOLEAN : s => PG.block # {}},
          act \in {0} \cup PG.focus : Overlap(skip, sel, act)
    \/ Switch

SpecOverlap == InitOverlap /\ [][NextOverlap]_vars

\* ------------------------------------------------------------------------
\* The background worker's rolling log (background.js writeLog).  An entry is
\* its call's number and whether its ts lies more than 60 days back; every
\* entry is written with ts = now, so each stored ts parses.  The calls of
\* concurrent provider requests overlap at the awaits of chrome.storage.
\* ------------------------------------------------------------------------
\* .slice(-200)
LogKeep == 200

MaxCalls == 3

\* the variables of the content script, which writeLog leaves alone
contentVars ==
    <<docVars, page, autoSubmit, hasSel, active, round, other, pc, skipSubmit, fill,
      snap, log, resp, matchVars>>

\* the content script on a page where nothing is triggered
InitQuiet ==
    /\ InitDoc("legend")
    /\ \A e \in Els : ~checked[e] /\ ~aria[e]
    /\ autoSubmit = FALSE
    /\ hasSel = FALSE
    /\ active = 0
    /\ round = 1
    /\ other = NoOther
    /\ pc = "idle"
    /\ skipSubmit = FALSE
    /\ fill = NoFill
    /\ snap = Doc
    /\ log = <<>>
    /\ resp = NoResp
    /\ InitNoCmd
    /\ InitNoMatch

LogEntry(n, old) == [id |-> n, old |-> old]

\* a buffer left by n earlier calls, the first k of them over 60 days ago
EarlierLog(n, k) == [i \in 1..n |-> LogEntry(0, i <= k)]

InitLog ==
    /\ InitQuiet
    /\ InitNoServer
    /\ logBuffer \in {EarlierLog(0, 0), EarlierLog(LogKeep - 1, 0),
                      EarlierLog(LogKeep, 0), EarlierLog(LogKeep, 2)}
    /\ writers = [w \in Writers |-> NoCall]
    /\ calls = 0
    /\ fin = NoFin

\* __logBuffer.filter(e => Number.isFinite(t) ? t >= cutoff : true)
Pruned(buf) == SelectSeq(buf, LAMBDA e : ~e.old)

\* keeping every entry
SliceAll(s) == s

\* .slice(-200)
SliceLast(s) ==
    IF Len(s) <= LogKeep THEN s ELSE SubSeq(s, Len(s) - LogKeep + 1, Len(s))

\* writeLog is called: logEntry is built, storage.local.get is awaited
WriteLogCall(w) ==
    /\ writers[w].pc = "idle"
    /\ calls < MaxCalls
    /\ calls' = calls + 1
    /\ writers' = [v \in Writers |->
                     IF v = w
                     THEN [pc |-> "get", entry |-> calls + 1, next |-> <<>>,
                           alone |-> \A u \in Writers : writers[u].pc = "idle",
                           before |-> logBuffer]
                     ELSE [writers[v] EXCEPT !.alone = FALSE]]
    /\ UNCHANGED <<logBuffer, fin, contentVars, cmdVars, srvVars>>

\* the call is over: its try block ended or its catch swallowed the error
Completed(w, stored) ==
    /\ writers' = [writers EXCEPT ![w] = NoCall]
    /\ fin' = [entry |-> writers[w].entry, alone |-> writers[w].alone,
               stored |-> stored, before |-> writers[w].before]

\* storage.local.get resolves: pruned, next are computed and storage.local.set
\* is awaited; or it rejects
WriteLogGet(w, ok) ==
    /\ writers[w].pc = "get"
    /\ IF ok
       THEN /\ writers' = [writers EXCEPT ![w].pc = "set",
                             ![w].next = SliceLast(Append(Pruned(logBuffer),
                                                          LogEntry(writers[w].entry, FALSE)))]
            /\ fin' = fin
       ELSE Completed(w, FALSE)
    /\ UNCHANGED <<logBuffer, calls, contentVars, cmdVars, srvVars>>

\* storage.local.set resolves, or rejects (QUOTA_BYTES exceeded)
WriteLogSet(w, ok) ==
    /\ writers[w].pc = "set"
    /\ logBuffer' = IF ok THEN writers[w].next ELSE logBuffer
    /\ Completed(w, ok)
    /\ UNCHANGED <<calls, contentVars, cmdVars, srvVars>>

NextLog ==
    \E w \in Writers :
        \/ WriteLogCall(w)
        \/ \E ok \in BOOLEAN : WriteLogGet(w, ok)
        \/ \E ok \in BOOLEAN : WriteLogSet(w, ok)

SpecLog == InitLog /\ [][NextLog]_vars

\* ------------------------------------------------------------------------
\* The keyboard command (background.js commands.onCommand listener) with the
\* content script of the active tab and the backend's credit balance.  A
\* tabs.sendMessage to a tab that runs no content script rejects; to one
\* that does, it resolves with what the listener passes to sendResponse.
\* ------------------------------------------------------------------------
MaxCredits == 2

CommandPages == {"mixed", "date"}

InitCommand ==
    /\ \E name \in CommandPages : InitDoc(name)
    /\ \A e \in Els : ~checked[e]
    /\ autoSubmit \in BOOLEAN
    /\ hasSel \in {s \in BOOLEAN : s => PG.block # {}}
    /\ active \in {0} \cup PG.focus
    /\ round = 1
    /\ other = NoOther
    /\ pc = "off"
    /\ skipSubmit = FALSE
    /\ fill = NoFill
    /\ snap = Doc
    /\ log = <<>>
    /\ resp = NoResp
    /\ InitNoLog
    /\ InitNoServer
    /\ InitNoMatch
    /\ cmd = NoCmd
    /\ injected \in BOOLEAN
    /\ credits \in 0..MaxCredits

\* chrome.tabs.sendMessage(tab.id, {type: "captureAndFill", skipSubmit: skip})
\* from position at: the content script's listener is invoked, or the call
\* rejects and the catch at position caught takes over
SendMessage(skip, waiting, caught) ==
    /\ IF injected
       THEN /\ pc' = "sel"
            /\ skipSubmit' = skip
            /\ cmd' = [cmd EXCEPT !.pc = waiting, !.msgs = Append(@, skip)]
       ELSE /\ pc' = pc
            /\ skipSubmit' = skipSubmit
            /\ cmd' = [cmd EXCEPT !.pc = caught, !.msgs = Append(@, skip)]
    /\ UNCHANGED <<docVars, page, autoSubmit, hasSel, active, round, other, fill, snap,
                   log, resp, logVars, srvVars, matchVars>>

\* me.creditsBalance > 0 on a successful GET /user/me
HasCredits(meOk) == meOk /\ credits > 0

\* the command is given: checkCreditsAndMaybeLogUsage(false) is awaited
Command ==
    /\ cmd.pc = "idle"
    /\ cmd' = [cmd EXCEPT !.pc = "check"]
    /\ UNCHANGED <<contentVars, injected, credits, logVars, srvVars>>

\* the credit check returns; canProceed or return; the first message
CheckCredits(meOk) ==
    /\ cmd.pc = "check"
    /\ IF HasCredits(meOk)
       THEN /\ SendMessage(TRUE, "wait1", "inject")
            /\ UNCHANGED <<injected, credits>>
       ELSE /\ cmd' = [cmd EXCEPT !.pc = "end"]
            /\ UNCHANGED <<contentVars, injected, credits, logVars, srvVars>>

\* the first sendMessage resolves with the content script's answer, which is
\* not looked at; checkCreditsAndMaybeLogUsage(true, tab) is awaited
FirstReply ==
    /\ cmd.pc = "wait1"
    /\ pc = "done"
    /\ resp.sent
    /\ cmd' = [cmd EXCEPT !.pc = "log", !.reply = IF resp.ok THEN "ok" ELSE "failed"]
    /\ UNCHANGED <<contentVars, injected, credits, logVars, srvVars>>

\* checkCreditsAndMaybeLogUsage(true): GET /user/me, then POST /usage/log,
\* at which the backend takes one credit
LogUsage(meOk) ==
    /\ cmd.pc = "log"
    /\ IF HasCredits(meOk)
       THEN /\ cmd' = [cmd EXCEPT !.pc = "end", !.posts = @ + 1]
            /\ credits' = credits - 1
       ELSE /\ cmd' = [cmd EXCEPT !.pc = "end"]
            /\ credits' = credits
    /\ UNCHANGED <<contentVars, injected, logVars, srvVars>>

\* catch (err): scripting.executeScript, then the second message; when
\* executeScript rejects the inner catch takes over
Inject(ok) ==
    /\ cmd.pc = "inject"
    /\ IF ok
       THEN /\ injected' = TRUE
            /\ pc' = "sel"
            /\ skipSubmit' = FALSE
            /\ cmd' = [cmd EXCEPT !.pc = "wait2", !.msgs = Append(@, FALSE)]
       ELSE /\ injected' = injected
            /\ pc' = pc
            /\ skipSubmit' = skipSubmit
            /\ cmd' = [cmd EXCEPT !.pc = "reload"]
    /\ UNCHANGED <<docVars, page, autoSubmit, hasSel, active, round, other, fill, snap,
                   log, resp, credits, logVars, srvVars, matchVars>>

\* catch (e): tabs.reload, the pause, executeScript and the third message;
\* a rejection of any of them ends in catch (_) {}
Reload(ok) ==
    /\ cmd.pc = "reload"
    /\ IF ok
       THEN /\ injected' = TRUE
            /\ pc' = "sel"
            /\ skipSubmit' = FALSE
            /\ cmd' = [cmd EXCEPT !.pc = "wait3", !.msgs = Append(@, FALSE)]
       ELSE /\ injected' = injected
            /\ pc' = pc
            /\ skipSubmit' = skipSubmit
            /\ cmd' = [cmd EXCEPT !.pc = "end"]
    /\ UNCHANGED <<docVars, page, autoSubmit, hasSel, active, round, other, fill, snap,
                   log, resp, credits, logVars, srvVars, matchVars>>

\* the second or third sendMessage resolves; the listener is over
RetryReply ==
    /\ cmd.pc \in {"wait2", "wait3"}
    /\ pc = "done"
    /\ resp.sent
    /\ cmd' = [cmd EXCEPT !.pc = "end"]
    /\ UNCHANGED <<contentVars, injected, credits, logVars, srvVars>>

NextCommand ==
    \/ Command
    \/ \E meOk \in BOOLEAN : CheckCredits(meOk)
    \/ FirstReply
    \/ \E meOk \in BOOLEAN : LogUsage(meOk)
    \/ \E ok \in BOOLEAN : Inject(ok)
    \/ \E ok \in BOOLEAN : Reload(ok)
    \/ RetryReply
    \/ Run

SpecCommand == InitCommand /\ [][NextCommand]_vars

\* ------------------------------------------------------------------------
\* The backend (the express application).  Every route lies behind the
\* middleware that answers 503 without DATABASE_URL, so the handlers run
\* their Postgres branch.  A transaction of withTransaction starts with the
\* UPDATE of the user's row, whose lock it holds until COMMIT: transactions
\* on one user run one after the other, and are one step each here; the
\* handlers interleave at the awaits before it.
\* ------------------------------------------------------------------------
MaxRequests == 3

RequestIds == {1, 2}

\* everything but the backend
clientVars == <<contentVars, logVars, cmdVars>>

InitUsage ==
    /\ InitQuiet
    /\ InitNoLog
    /\ \E on \in BOOLEAN, b \in 0..MaxCredits :
          /\ db = Tables(on, b)
          /\ hist = History(b, NoConf)
    /\ store = StoreFile(0)
    /\ reqs = [h \in Handlers |-> NoReq]

\* POST /usage/log with requestId rid arrives: the middleware, then the
\* handler up to await withTransaction
UsageArrive(h, rid) ==
    /\ reqs[h].pc = "idle"
    /\ hist.n < MaxRequests
    /\ IF db.on
       THEN /\ reqs' = [reqs EXCEPT ![h] = [pc |-> "tx", key |-> rid, seen |-> <<>>]]
            /\ hist' = [hist EXCEPT !.n = @ + 1, !.keys = @ \cup {rid}]
       ELSE /\ reqs' = reqs
            /\ hist' = [hist EXCEPT !.n = @ + 1]
    /\ UNCHANGED <<db, store, clientVars>>

\* INSERT ... ON CONFLICT (key) DO NOTHING into a column of unique values
InsertUnique(rows, key) ==
    IF \E i \in DOMAIN rows : rows[i] = key THEN rows ELSE Append(rows, key)

\* the transaction of POST /usage/log: UPDATE ... credits_balance - 1 WHERE
\* credits_balance > 0, then INSERT INTO usage_logs; or a query rejects and
\* the transaction is rolled back
UsageTransaction(h, ok) ==
    /\ reqs[h].pc = "tx"
    /\ db' = IF ok /\ db.credits > 0
             THEN [db EXCEPT !.credits = @ - 1, !.usage = InsertUnique(@, reqs[h].key)]
             ELSE db
    /\ reqs' = [reqs EXCEPT ![h] = NoReq]
    /\ UNCHANGED <<store, hist, clientVars>>

NextUsage ==
    \E h \in Handlers :
        \/ \E rid \in RequestIds : UsageArrive(h, rid)
        \/ \E ok \in BOOLEAN : UsageTransaction(h, ok)

SpecUsage == InitUsage /\ [][NextUsage]_vars

\* ------------------------------------------------------------------------
\* The payment webhooks.  A delivery is a successful payment of pack_small by
\* the user: Stripe's checkout.session.completed, Razorpay's payment.captured
\* or the stub's payment.succeeded; key is the provider with its reference:
\* the event and checkout session, the captured payment, or the stub's eventId.  Whether the body passes
\* JSON.parse / constructEvent / the HMAC comparison is the delivery's
\* "verified".  hist.keys holds the payments of the deliveries answered
\* {ok: true}.
\* ------------------------------------------------------------------------
\* PACKS.pack_small.credits
PackCredits == 50

Payments == {1, 2}

Ref(route, p) == <<route, p>>

\* stripe: STRIPE_SECRET_KEY and STRIPE_WEBHOOK_SECRET are set;
\* razorpay: RAZORPAY_WEBHOOK_SECRET is set
InitWebhook ==
    /\ InitQuiet
    /\ InitNoLog
    /\ \E on \in BOOLEAN : db = Tables(on, 0)
    /\ \E s \in BOOLEAN, r \in BOOLEAN :
          hist = History(0, [stripe |-> s, razorpay |-> r])
    /\ store = StoreFile(0)
    /\ reqs = [h \in Handlers |-> NoReq]

\* a delivery reaches the application: the middleware answers 503 without a
\* database, else the handler is entered
Received == hist' = [hist EXCEPT !.n = @ + 1]

Accepted(key) == hist' = [hist EXCEPT !.keys = @ \cup {key}]

\* the stub branch of POST /payment/webhook, which has no await: store.json
\* is read, the event looked up in webhookEvents, the user credited and the
\* store written
StubWebhook(key, verified) ==
    /\ ~hist.conf.stripe
    /\ hist.n < MaxRequests
    /\ IF db.on /\ verified
       THEN /\ store' = IF \E i \in DOMAIN store.webhookEvents : store.webhookEvents[i] = key
                        THEN store
                        ELSE [credits |-> store.credits + PackCredits,
                              webhookEvents |-> Append(store.webhookEvents, key),
                              payments |-> Append(store.payments, key)]
            /\ hist' = [hist EXCEPT !.n = @ + 1, !.keys = @ \cup {key}]
       ELSE /\ store' = store
            /\ Received
    /\ UNCHANGED <<db, reqs, clientVars>>

\* a handler is entered and reaches its first await: POST /payment/webhook
\* has read store.json by then (await import('stripe')), POST
\* /payment/razorpay/webhook answers 501 without its secret (await
\* import('crypto'))
WebhookArrive(h, route, key) ==
    /\ reqs[h].pc = "idle"
    /\ hist.n < MaxRequests
    /\ route = "stripe" => hist.conf.stripe
    /\ Received
    /\ reqs' = IF db.on /\ (route = "razorpay" => hist.conf.razorpay)
               THEN [reqs EXCEPT ![h] = [pc |-> route, key |-> key,
                                         seen |-> store.webhookEvents]]
               ELSE reqs
    /\ UNCHANGED <<db, store, clientVars>>

\* the transaction of both providers: UPDATE ... credits_balance + credits,
\* INSERT INTO credit_adjustments, INSERT INTO payments ... ON CONFLICT
\* (provider_ref) DO NOTHING
CreditTransaction(key) ==
    [db EXCEPT !.credits = @ + PackCredits, !.adjustments = @ + 1,
               !.payments = InsertUnique(@, key)]

\* the Stripe branch after the await: constructEvent, the look-up of the
\* event in the webhookEvents read at the start (the push to it is never
\* written back), the transaction; a rejection answers 400
StripeHandle(h, verified, ok) ==
    /\ reqs[h].pc = "stripe"
    /\ IF verified /\ \E i \in DOMAIN reqs[h].seen : reqs[h].seen[i] = reqs[h].key
       THEN db' = db /\ Accepted(reqs[h].key)
       ELSE IF verified /\ ok
       THEN db' = CreditTransaction(reqs[h].key) /\ Accepted(reqs[h].key)
       ELSE db' = db /\ hist' = hist
    /\ reqs' = [reqs EXCEPT ![h] = NoReq]
    /\ UNCHANGED <<store, clientVars>>

\* the Razorpay handler after the await: the signature, the transaction
RazorpayHandle(h, verified, ok) ==
    /\ reqs[h].pc = "razorpay"
    /\ IF verified /\ ok
       THEN db' = CreditTransaction(reqs[h].key) /\ Accepted(reqs[h].key)
       ELSE db' = db /\ hist' = hist
    /\ reqs' = [reqs EXCEPT ![h] = NoReq]
    /\ UNCHANGED <<store, clientVars>>

NextWebhook ==
    \/ \E p \in Payments, verified \in BOOLEAN : StubWebhook(Ref("stub", p), verified)
    \/ \E h \in Handlers, route \in {"stripe", "razorpay"}, p \in Payments :
          WebhookArrive(h, route, Ref(route, p))
    \/ \E h \in Handlers, verified \in BOOLEAN, ok \in BOOLEAN :
          StripeHandle(h, verified, ok)
    \/ \E h \in Handlers, verified \in BOOLEAN, ok \in BOOLEAN :
          RazorpayHandle(h, verified, ok)

SpecWebhook == InitWebhook /\ [][NextWebhook]_vars

\* ------------------------------------------------------------------------
\* selectBy applied directly: the options of one group of unnamed radios,
\* as buildFieldIndex stores them, and one value
\* ------------------------------------------------------------------------
MaxOpts == 3

\* the markup of the options drawn: a wrapping label, or an aria-label
\* with the caption in the parent's text
MatchEls ==
    {Radio(<<>>, l, 0) : l \in {<<"Y","e","s">>, <<"y","e","s",","," ","p","l","e","a","s","e">>, <<"s","t","r","i","n","g">>, <<"S","t","r","i","n","g">>,
                                <<"s","T","r","i","n","g">>, <<"r","a","d","i","o">>, <<"t","y","p","e",":","r","a","d","i","o","|","i","d","x",":","1">>}}
    \cup {[E0 EXCEPT !.type = S_radio, !.aria = <<"B">>, !.parentText = <<" ","P","i","c","k"," ","B","!"," ">>]}

MatchVals ==
    {<<"Y","e","s">>, <<"y","e","s">>, <<" ","Y","e","s"," ">>, <<"s","t","r","i","n","g">>, <<"S","T","R","I","N","G">>, <<"z","z","z">>,
     <<"t","y","p","e",":","r","a","d","i","o","|","i","d","x",":","1">>, <<"P","i","c","k"," ","B","!">>, <<"p","i","c","k"," ","b">>, <<>>, Null}

\* the options entry buildFieldIndex builds from the controls els
IndexOptions(els) ==
    [i \in 1..Len(els) |->
       [el |-> i, label |-> getLabelForElement(els[i]),
        id |-> generateFieldId(els[i], i - 1), around |-> AroundText(els[i])]]

InitMatch ==
    /\ page = "legend"
    /\ checked = [e \in DOMAIN PageLegend.els |-> FALSE]
    /\ aria = [e \in DOMAIN PageLegend.els |-> FALSE]
    /\ value = PageLegend.value0
    /\ tags = [e \in DOMAIN PageLegend.els |-> NoTag]
    /\ ev = [e \in DOMAIN PageLegend.els |-> [input |-> 0, change |-> 0, click |-> 0]]
    /\ clicks = <<>>
    /\ submits = <<>>
    /\ autoSubmit = FALSE
    /\ hasSel = FALSE
    /\ active = 0
    /\ InitProc
    /\ \E els \in UNION {[1..k -> MatchEls] : k \in 1..MaxOpts} :
          mOpts = IndexOptions(els)
    /\ mVal \in MatchVals
    /\ mRes = 0
    /\ mDone = FALSE

Match ==
    /\ ~mDone
    /\ mRes' = selectBy(mOpts, mVal)
    /\ mDone' = TRUE
    /\ UNCHANGED <<docVars, envVars, pc, skipSubmit, fill, snap, log, resp, mOpts, mVal>>

NextMatch == Match

SpecMatch == InitMatch /\ [][NextMatch]_vars

\* ------------------------------------------------------------------------
\* Properties of selectBy (checked under SpecMatch)
\* ------------------------------------------------------------------------
\* the options whose identifier equals the raw value
IdHits == {i \in DOMAIN mOpts : mOpts[i].id = mVal}

\* the options whose exact (trimmed, case-preserving) label equals the value
LabelHits == {i \in DOMAIN mOpts : Trim(mOpts[i].label) = Trim(mVal)}

\* the options whose label equals the value ignoring case and spacing
CaseHits ==
    {i \in DOMAIN mOpts :
        Trim(CollapseSpaces(ToLowerCase(mOpts[i].label)))
          = Trim(CollapseSpaces(ToLowerCase(mVal)))}

CapitalHits == {i \in CaseHits : StartsUpper(Trim(mOpts[i].label))}

TieBreakApplies == Cardinality(CaseHits) >= 2

C8_CaseTieBreak ==
    (mDone /\ mVal # Null /\ TieBreakApplies) =>
        /\ LabelHits # {} => mRes \in LabelHits
        /\ (LabelHits = {} /\ CapitalHits # {}) => mRes \in CapitalHits

\* options ["string", "String"], value "STRING": "String" is returned
C8_Witness ==
    /\ mDone
    /\ Len(mOpts) = 2
    /\ mOpts[1].label = <<"s","t","r","i","n","g">>
    /\ mOpts[2].label = <<"S","t","r","i","n","g">>
    /\ mVal = <<"S","T","R","I","N","G">>
    /\ mRes = 2

\* the case tie-break returned an option: two or more labels equal the value
\* ignoring case and one of them is exact in case or capitalised
TieBreakReturns == TieBreakApplies /\ (LabelHits # {} \/ CapitalHits # {})

\* the value reaches the end of the scoring loop
Scored == mDone /\ mVal # Null /\ IdHits = {} /\ LabelHits = {} /\ ~TieBreakReturns

\* C21: when neither an exact identifier or label match nor the case
\* tie-break applies, selectBy returns an option of maximal score among the
\* group's options, and among the options of that score the first in the
\* group's stored order.
C21_MaxScoreFirst ==
    Scored =>
        /\ mRes \in DOMAIN mOpts
        /\ \A j \in DOMAIN mOpts : Score(mOpts[j], mVal) <= Score(mOpts[mRes], mVal)
        /\ \A j \in 1..(mRes - 1) : Score(mOpts[j], mVal) < Score(mOpts[mRes], mVal)

\* three options, the second and third of the same positive maximal score,
\* the first of a lower one: the second is returned
C21_Witness ==
    /\ Scored
    /\ Len(mOpts) = 3
    /\ mRes = 2
    /\ Score(mOpts[2], mVal) > 0
    /\ Score(mOpts[3], mVal) = Score(mOpts[2], mVal)
    /\ Score(mOpts[1], mVal) < Score(mOpts[2], mVal)

\* ------------------------------------------------------------------------
\* Properties of the listener and of fillAnswers (checked under Spec)
\* ------------------------------------------------------------------------
\* the index the latest fillAnswers call built
FillIdx == buildFieldIndex(PG.els, fill.tags)

GroupOptions(gid) == FillIdx.byGroup[gid].options

GroupEls(gid) == {GroupOptions(gid)[i].el : i \in DOMAIN GroupOptions(gid)}

MarkedEls == {fill.marks[k].el : k \in DOMAIN fill.marks}

PreSelected(e) ==
    IF PG.els[e].role # <<>> THEN fill.pre.aria[e] ELSE fill.pre.checked[e]

\* the payload is { choices: { key: value } } with one entry
SingleChoice ==
    /\ fill.applied
    /\ fill.answers.shape = "object"
    /\ fill.answers.hasChoices
    /\ Len(fill.answers.choices) = 1

\* C1: after a single string answer resolving to one option of a radio group
\* is applied, exactly that option of the group is selected and every other
\* option of the group is deselected, whatever was checked before.
C1_RadioExclusive ==
    (SingleChoice /\ fill.answers.choices[1].val.kind = "str" /\ Len(fill.marks) = 1) =>
        LET m == fill.marks[1]
        IN  (\A e \in GroupEls(m.gid) : KindOf(PG.els[e]) = S_radio) =>
               {e \in GroupEls(m.gid) : Selected(e)} = {m.el}

\* no identifier match, no exact-label match and score 0 against every option
NoSignal(opts, val) ==
    /\ val # Null
    /\ \A i \in DOMAIN opts :
          /\ opts[i].id # val
          /\ Trim(opts[i].label) # Trim(val)
          /\ Score(opts[i], val) = 0

\* C2: a value with no match signal against any option of its group selects
\* nothing: no option is marked and filled is not incremented for it.
C2_NoSignalDropped ==
    fill.applied =>
        \A k \in DOMAIN fill.marks :
            ~NoSignal(GroupOptions(fill.marks[k].gid), fill.marks[k].val)

Rank(strat) ==
    IF strat = "sel" THEN 1 ELSE IF strat = "view" THEN 2
    ELSE IF strat = "focus" THEN 3 ELSE 4

NotSuccessful(e) == e.ev \in {"na", "fail", "nofill", "throw"}

\* C3: the strategies run in the order selection, viewport, focus, full page;
\* a strategy starts only after every earlier one reported not-successful;
\* after a success no strategy starts and no provider request is issued.
C3_StrategyOrder ==
    /\ \A i \in DOMAIN log :
          log[i].ev = "start" =>
             /\ \A j \in 1..(i - 1) : Rank(log[j].strat) < Rank(log[i].strat)
             /\ \A k \in 1..(Rank(log[i].strat) - 1) :
                   \E j \in 1..(i - 1) : Rank(log[j].strat) = k /\ NotSuccessful(log[j])
    /\ \A i \in DOMAIN log : log[i].ev = "ok" => i = Len(log)
    /\ \A i, j \in DOMAIN log :
          (i # j /\ log[i].ev = "request" /\ log[j].ev = "request")
             => log[i].strat # log[j].strat

\* all four strategies ran in turn and the full-page one succeeded
C3_Witness ==
    /\ pc = "done"
    /\ log[Len(log)] = LogEv("ok", "full")
    /\ \E i \in DOMAIN log : log[i] = LogEv("fail", "sel")
    /\ \E i \in DOMAIN log : log[i] = LogEv("nofill", "view")
    /\ \E i \in DOMAIN log : log[i] = LogEv("na", "focus")

NextStrategy(strat) ==
    IF strat = "sel" THEN "view" ELSE IF strat = "view" THEN "focus" ELSE "full"

\* C4: when the selection-, viewport- or focus-scoped strategy fails, the
\* provider's rejection included, the trigger goes on to the next strategy.
C4_FallThrough ==
    pc = "done" =>
        \A i \in DOMAIN log :
            (NotSuccessful(log[i]) /\ log[i].strat # "full") =>
               \E j \in (i + 1)..Len(log) :
                  log[j] = LogEv("start", NextStrategy(log[i].strat))

\* C5: a strategy writes no control's value or checked state before its
\* provider round-trip has completed, and none at all when the provider
\* answers with a failure or the transport fails.
C5_NoWriteBeforeReply ==
    /\ pc \in {"selWait", "viewWait", "focusWait", "fullWait"} => Doc = snap
    /\ \A i \in DOMAIN log :
          (log[i].ev = "fail" /\ \A j \in (i + 1)..Len(log) : log[j].ev # "start")
             => Doc = snap

\* the provider failed the focus-scoped request for a control holding text
C5_Witness ==
    /\ pc = "done"
    /\ log # <<>>
    /\ log[Len(log)] = LogEv("fail", "focus")
    /\ active # 0
    /\ value[active] # <<>>

\* the payload is one array answer for a checkbox group, every value of
\* which resolves to an option of the group on a match signal
ArrayChoice ==
    /\ SingleChoice
    /\ fill.answers.choices[1].val.kind = "arr"
    /\ ResolveGroup(FillIdx, fill.answers.choices[1].key) # <<>>
    /\ LET gid == ResolveGroup(FillIdx, fill.answers.choices[1].key)
       IN  /\ \A e \in GroupEls(gid) : KindOf(PG.els[e]) = S_checkbox
           /\ \A k \in DOMAIN fill.answers.choices[1].val.vals :
                 /\ selectBy(GroupOptions(gid), fill.answers.choices[1].val.vals[k]) # 0
                 /\ ~NoSignal(GroupOptions(gid), fill.answers.choices[1].val.vals[k])

ArrayGroup == ResolveGroup(FillIdx, fill.answers.choices[1].key)

ArrayVals == fill.answers.choices[1].val.vals

\* the options the values of the array resolve to
ResolvedEls ==
    {GroupOptions(ArrayGroup)[selectBy(GroupOptions(ArrayGroup), ArrayVals[k])].el :
        k \in DOMAIN ArrayVals}

\* C6, as claimed: an array of N distinct resolving values leaves exactly N
\* options selected by the operation, the others keeping their state.
C6_ExactlyN ==
    ArrayChoice =>
        /\ Cardinality(MarkedEls) = Len(ArrayVals)
        /\ \A e \in GroupEls(ArrayGroup) \ MarkedEls : Selected(e) = PreSelected(e)

\* C6, amended: the operation selects every option some value resolves to
\* (as many options as the values resolve to: N when they resolve to N
\* different options, fewer when two values resolve to the same option) and
\* every option no value resolved to keeps the checked state it had.
C6_ResolvedSelected ==
    ArrayChoice =>
        /\ MarkedEls = ResolvedEls
        /\ Cardinality(MarkedEls) <= Len(ArrayVals)
        /\ \A e \in GroupEls(ArrayGroup) :
              Selected(e) = (e \in ResolvedEls \/ PreSelected(e))

\* two values resolving to two options, a third option keeping its check
C6_Witness ==
    /\ ArrayChoice
    /\ Len(ArrayVals) = 2
    /\ Cardinality(ResolvedEls) = 2
    /\ \E e \in GroupEls(ArrayGroup) \ ResolvedEls : Selected(e)
    /\ \E e \in ResolvedEls : ~PreSelected(e)

\* a key that hits none of the index's maps
KeyMiss(idx, key) ==
    /\ key \notin DOMAIN idx.byId
    /\ normalizeKey(key) \notin
          (DOMAIN idx.byLabel \cup DOMAIN idx.byName \cup DOMAIN idx.byHtmlId
             \cup DOMAIN idx.byPlaceholder)

ItemMiss(idx, it) ==
    /\ it.id \notin DOMAIN idx.byId
    /\ it.sel <= 0
    /\ normalizeKey(it.label) \notin DOMAIN idx.byLabel
    /\ normalizeKey(it.name) \notin DOMAIN idx.byName
    /\ normalizeKey(it.htmlId) \notin DOMAIN idx.byHtmlId

GroupMiss(idx, key) ==
    /\ key \notin DOMAIN idx.byGroup
    /\ normalizeKey(key) \notin DOMAIN idx.byGroupQuestion

\* the payload's identifiers and keys match no entry of the index
NoMatch(a, idx) ==
    IF a.shape = "list"
    THEN \A i \in DOMAIN a.list : ItemMiss(idx, a.list[i])
    ELSE /\ a.shape = "object"
         /\ \A i \in DOMAIN a.choices : GroupMiss(idx, a.choices[i].key)
         /\ \A i \in DOMAIN a.fields : KeyMiss(idx, a.fields[i].key)
         /\ ~a.hasFields =>
               \A i \in DOMAIN FlatEntries(a) : KeyMiss(idx, FlatEntries(a)[i].key)

\* C9: a payload matching no entry of the index fills nothing, raises no
\* exception, leaves every control's value and checked state as it was, and
\* submits nothing.
C9_NoMatchNoFill ==
    (fill.applied /\ NoMatch(fill.answers, FillIdx)) =>
        /\ ~fill.threw
        /\ fill.filled = 0
        /\ checked = fill.pre.checked
        /\ aria = fill.pre.aria
        /\ value = fill.pre.value
        /\ fill.done =>
              /\ ~fill.submitted
              /\ \A f \in DOMAIN clicks : clicks[f] = 0 /\ submits[f] = 0

TextLike(e) ==
    \/ PG.els[e].tag = S_input /\ ~IsNativeChoice(PG.els[e])
    \/ PG.els[e].tag = S_textarea
    \/ PG.els[e].editable

\* the scalar answers of an object payload, in application order
ScalarEntries ==
    IF fill.answers.hasFields THEN fill.answers.fields ELSE FlatEntries(fill.answers)

\* the scalar answers applied to control e
AppliedTo(e) ==
    {i \in DOMAIN ScalarEntries : ResolveKey(FillIdx, ScalarEntries[i].key) = e}

SameAnswer(e) ==
    \A i, j \in AppliedTo(e) : ScalarEntries[i].val = ScalarEntries[j].val

\* fillAnswers went through the scalar answers of an object payload
ScalarFill == fill.applied /\ fill.answers.shape = "object" /\ ~fill.threw

InputsSince(e) == ev[e].input - fill.pre.ev[e].input

ChangesSince(e) == ev[e].change - fill.pre.ev[e].change

C12_SameIdentifier ==
    [][\A e \in Els :
          (tags[e].id # <<>> /\ tags'[e].id # <<>>) => tags'[e].id = tags[e].id]_vars

\* the group gid consists of native radios that share the name attribute n
NamedRadioGroup(gid, n) ==
    /\ n # <<>>
    /\ \A e \in GroupEls(gid) :
          /\ IsNativeChoice(PG.els[e]) /\ KindOf(PG.els[e]) = S_radio
          /\ PG.els[e].name = n

\* C13: a choices entry keyed by the name attribute the radios of a group
\* share, or by the group's synthesized group id, with a value equal to the
\* label of one option, leaves that option checked and no other of the group.
C13_NameOrGroupKey ==
    (SingleChoice /\ fill.answers.choices[1].val.kind = "str") =>
        \A gid \in DOMAIN FillIdx.byGroup : \A e \in GroupEls(gid) :
            ( /\ NamedRadioGroup(gid, PG.els[e].name)
              /\ fill.answers.choices[1].key \in {gid, PG.els[e].name}
              /\ getLabelForElement(PG.els[e]) = fill.answers.choices[1].val.vals[1] )
            => {x \in GroupEls(gid) : Selected(x)} = {e}

\* C14: the result sent to the trigger's caller reports the fill performed:
\* filled is the number of answers applied to controls (one for the
\* focus-scoped strategy, the count of the strategy's fill otherwise) and
\* submitted holds exactly when a form's submit control or submit method was
\* invoked.
C14_ResultIsAggregate ==
    (pc = "done" /\ resp.sent /\ resp.ok) =>
        IF log[Len(log)].strat = "focus"
        THEN resp.filled = 1 /\ ~resp.submitted
        ELSE /\ resp.filled = fill.filled
             /\ resp.submitted = (\E f \in DOMAIN clicks : clicks[f] + submits[f] > 0)

\* the control the i-th choices entry resolves to (for a string value whose
\* key resolves to a group)
ChoiceTarget(i) ==
    GroupOptions(ResolveGroup(FillIdx, fill.answers.choices[i].key))
      [selectBy(GroupOptions(ResolveGroup(FillIdx, fill.answers.choices[i].key)),
                fill.answers.choices[i].val.vals[1])].el

\* applying the checked state to control e as a single choice raises
Raises(e) ==
    NotCallable(PG.els, EnsureCheckedSibs(PG.els, e, TRUE) \cup {e}) # {}

\* the payload holds single-choice entries, and applying one of them raises
RaisingBatch ==
    /\ fill.applied
    /\ fill.answers.shape = "object" /\ fill.answers.hasChoices
    /\ \A i \in DOMAIN fill.answers.choices :
          /\ fill.answers.choices[i].val.kind = "str"
          /\ ResolveGroup(FillIdx, fill.answers.choices[i].key) # <<>>
    /\ \E i \in DOMAIN fill.answers.choices : Raises(ChoiceTarget(i))

\* C15: when applying the checked state to one resolved option of a batch of
\* choice answers raises, fillAnswers does not fail: only that item is
\* skipped, and every other entry of the batch is applied.
C15_MutationErrorLocal ==
    RaisingBatch =>
        /\ ~fill.threw
        /\ \A i \in DOMAIN fill.answers.choices :
              ~Raises(ChoiceTarget(i)) => ChoiceTarget(i) \in MarkedEls

\* the control of the first step of a pipeline that hits (0: no step hits)
FirstHit(steps) ==
    IF \A i \in DOMAIN steps : steps[i] = 0 THEN 0
    ELSE steps[First({i \in DOMAIN steps : steps[i] # 0})]

\* the pipeline for an entry of the fields object or of the flat map: a map
\* key provides no selector
KeySteps(idx, key) ==
    <<Get(idx.byId, key), 0,
      Get(idx.byLabel, normalizeKey(key)), Get(idx.byName, normalizeKey(key)),
      Get(idx.byHtmlId, normalizeKey(key)), Get(idx.byPlaceholder, normalizeKey(key))>>

\* the pipeline for an item of the ordered list: a selector that is invalid
\* or matches nothing hits nothing; an item provides no placeholder
ItemSteps(idx, it) ==
    <<Get(idx.byId, it.id), IF it.sel > 0 THEN it.sel ELSE 0,
      Get(idx.byLabel, normalizeKey(it.label)), Get(idx.byName, normalizeKey(it.name)),
      Get(idx.byHtmlId, normalizeKey(it.htmlId)), 0>>

\* the controls the scalar answers of the payload resolve to, in order
ScalarTargets ==
    IF fill.answers.shape = "list"
    THEN [i \in DOMAIN fill.answers.list |->
            FirstHit(ItemSteps(FillIdx, fill.answers.list[i]))]
    ELSE [i \in DOMAIN ScalarEntries |->
            FirstHit(KeySteps(FillIdx, ScalarEntries[i].key))]

\* a payload of scalar answers only, in one of the three shapes
ScalarPayload ==
    /\ fill.applied
    /\ \/ fill.answers.shape = "list"
       \/ fill.answers.shape = "object" /\ ~fill.answers.hasChoices

\* setElementValue writes it: an input, a textarea or an editable node
Writable(e) == PG.els[e].tag \in {S_input, S_textarea} \/ PG.els[e].editable

\* the pipeline's outcome: every answer is applied to the control of its
\* first hit and to no other, an answer without a hit is dropped
AppliedByPipeline ==
    /\ fill.filled = Cardinality({i \in DOMAIN ScalarTargets : ScalarTargets[i] # 0})
    /\ \A e \in Els :
          IF Writable(e)
          THEN InputsSince(e) = Cardinality({i \in DOMAIN ScalarTargets : ScalarTargets[i] = e})
          ELSE value[e] = fill.pre.value[e]
    /\ \A e \in Els :
          (\A i \in DOMAIN ScalarTargets : ScalarTargets[i] # e)
             => value[e] = fill.pre.value[e]

\* C16: in each of the three shapes a scalar answer is resolved by the
\* pipeline identifier, selector, label, name, htmlId, placeholder; it is
\* applied to the control of the first step that hits and to no other, and
\* dropped without error when no step hits.
C16_SamePipeline ==
    ScalarPayload => (~fill.threw /\ AppliedByPipeline)

\* C17: when the trigger requests silent application (skipSubmit), no change
\* notification is dispatched on any control during the trigger, whichever
\* strategy writes.
C17_SilentNoChange ==
    skipSubmit => \A e \in Els : ev[e].change = 0

\* the exclusivity set of a radio-kind control: the radio-kind controls that
\* share its name or its enclosing radiogroup container (itself included)
ExclusivitySet(e) ==
    {n \in Els :
        /\ KindOf(PG.els[n]) = S_radio
        /\ \/ n = e
           \/ PG.els[e].name # <<>> /\ PG.els[n].name = PG.els[e].name
           \/ PG.els[e].rgroup # 0 /\ PG.els[n].rgroup = PG.els[e].rgroup}

SelectedIn(doc, e) == IF PG.els[e].role # <<>> THEN doc.aria[e] ELSE doc.checked[e]

\* the document between the clearing of the siblings and the marking of the
\* target, for the call recorded as mark m
BeforeMarking(m) ==
    ClearSiblings(PG.els, fill.pre, EnsureCheckedSibs(PG.els, m.el, m.isRadio))

\* C18: in an exclusive selection every sibling of the target's exclusivity
\* set is cleared before the target is marked, and, starting with at most one
\* member selected, neither the state before the marking nor the state after
\* it has two members of the set selected.
C18_ClearedBeforeMarked ==
    (SingleChoice /\ fill.answers.choices[1].val.kind = "str" /\ Len(fill.marks) = 1) =>
        LET m == fill.marks[1]
        IN  ( /\ KindOf(PG.els[m.el]) = S_radio
              /\ Cardinality({x \in ExclusivitySet(m.el) : SelectedIn(fill.pre, x)}) <= 1 )
            => /\ \A x \in ExclusivitySet(m.el) \ {m.el} : ~SelectedIn(BeforeMarking(m), x)
               /\ {x \in ExclusivitySet(m.el) : Selected(x)} = {m.el}

\* the controls the index was built from
TaggedEls == {e \in Els : fill.tags[e].id # <<>>}

\* map m holds, for each of its keys, the first tagged control in document
\* order whose attribute normalizes to the key
FirstInScan(m, attr(_)) ==
    \A k \in DOMAIN m :
        /\ m[k] \in TaggedEls
        /\ normalizeKey(attr(PG.els[m[k]])) = k
        /\ \A e \in TaggedEls : normalizeKey(attr(PG.els[e])) = k => m[k] <= e

AttrName(el) == el.name

AttrHtmlId(el) == el.htmlId

AttrPlaceholder(el) == el.ph

\* C20: in the index each normalized label, name, htmlId and placeholder key
\* maps to the first tagged control in scan order that carries it; a later
\* control with the same key does not replace it.
C20_FirstSeenWins ==
    (fill.applied /\ fill.answers.shape # "null") =>
        /\ FirstInScan(FillIdx.byLabel, getLabelForElement)
        /\ FirstInScan(FillIdx.byName, AttrName)
        /\ FirstInScan(FillIdx.byHtmlId, AttrHtmlId)
        /\ FirstInScan(FillIdx.byPlaceholder, AttrPlaceholder)

\* two tagged radios carry the name "yn"; the answer keyed "YN" is written
\* to the first of them and not to the second
C20_Witness ==
    /\ fill.applied
    /\ \E e1, e2 \in TaggedEls :
          /\ e1 < e2
          /\ PG.els[e1].name = PG.els[e2].name
          /\ normalizeKey(PG.els[e1].name) \in DOMAIN FillIdx.byName
          /\ FillIdx.byName[normalizeKey(PG.els[e1].name)] = e1
          /\ value[e1] # fill.pre.value[e1]
          /\ value[e2] = fill.pre.value[e2]

\* a text-like or editable control: an input of an allow-listed type, a
\* textarea or editable content
FocusTextLike(e) ==
    \/ /\ PG.els[e].tag = S_input
       /\ ToLowerCase(OrElse(PG.els[e].type, S_text)) \in AllowedTextTypes
    \/ PG.els[e].tag = S_textarea
    \/ PG.els[e].editable

FocusRequested == \E i \in DOMAIN log : log[i] = LogEv("request", "focus")

FocusWrote == \E i \in DOMAIN log : log[i] = LogEv("ok", "focus")

\* C22: the focus-scoped strategy sends a provider request and writes a value
\* only when the focused element is a text-like or editable control; with the
\* focus on any other element (a radio, checkbox or button input included) it
\* is not applicable and writes nothing; it writes to no control other than
\* the focused one.
C22_FocusOnlyTextLike ==
    /\ FocusRequested => (active # 0 /\ FocusTextLike(active))
    /\ FocusWrote =>
          \A e \in Els \ {active} :
              /\ value[e] = snap.value[e]
              /\ checked[e] = snap.checked[e]
              /\ aria[e] = snap.aria[e]

\* ------------------------------------------------------------------------
\* Properties of a session of several triggers (checked under SpecSession)
\* ------------------------------------------------------------------------
\* the controls the discovery pass of the strategy that fills has tagged
LatestTagged ==
    IF fill.strat = "sel" THEN Range(SelectionInputs(PG.els, PG.block))
    ELSE Range(TextCandidates(PG.els)) \cup Range(ChoiceElements(PG.els))

\* the controls reachable through a map of the index
IndexedEls ==
    Range(FillIdx.byId) \cup Range(FillIdx.byLabel) \cup Range(FillIdx.byName)
      \cup Range(FillIdx.byHtmlId) \cup Range(FillIdx.byPlaceholder)
      \cup UNION {GroupEls(gid) : gid \in DOMAIN FillIdx.byGroup}

\* the controls the fill wrote
MutatedEls ==
    {e \in Els : \/ value[e] # fill.pre.value[e]
                 \/ checked[e] # fill.pre.checked[e]
                 \/ aria[e] # fill.pre.aria[e]
                 \/ ev[e] # fill.pre.ev[e]}

\* C19: the index built for a fill holds only controls tagged by the latest
\* discovery pass; a control tagged only by an earlier pass is reachable
\* through no map of the index and is not written by the fill.
C19_IndexOfLatestPass ==
    (fill.applied /\ fill.answers.shape # "null") =>
        /\ IndexedEls \subseteq LatestTagged
        /\ MutatedEls \subseteq LatestTagged

\* ------------------------------------------------------------------------
\* Properties of two triggers in flight (checked under SpecOverlap)
\* ------------------------------------------------------------------------
\* where an invocation stands while the provider request of a strategy is
\* in flight
WaitOf(strat) ==
    IF strat = "sel" THEN "selWait"
    ELSE IF strat = "view" THEN "viewWait"
    ELSE IF strat = "focus" THEN "focusWait"
    ELSE IF strat = "full" THEN "fullWait"
    ELSE "none"

\* the running invocation was set aside during the provider round-trip of a
\* strategy and has applied that strategy's answers since
ResumedFill ==
    /\ other.pc # "none"
    /\ fill.applied
    /\ other.back.pc = WaitOf(fill.strat)

\* C23: triggers on one document are not serialized. An invocation that was
\* suspended at its provider round-trip while a second trigger ran resolves
\* its answers against the tags the document carries when it resumes, those
\* the second trigger's discovery pass wrote, and both write to the document.
C23_ResumedUsesOthersTags ==
    ResumedFill => fill.tags = other.tags

\* the first trigger awaited the full-page reply while the second tagged and
\* filled the focused date input; the first trigger's answer then resolved
\* to that control, which its own discovery pass had not tagged, and
\* overwrote it
C23_Witness ==
    /\ ResumedFill
    /\ round = 1
    /\ other.round = 2
    /\ other.resp.sent /\ other.resp.ok
    /\ [checked |-> fill.pre.checked, aria |-> fill.pre.aria, value |-> fill.pre.value] # snap
    /\ \E e \in Els :
          /\ other.back.tags[e].id = <<>>
          /\ fill.tags[e].id # <<>>
          /\ value[e] # fill.pre.value[e]

\* ------------------------------------------------------------------------
\* Properties of the rolling log (checked under SpecLog)
\* ------------------------------------------------------------------------
NoCallInProgress == \A w \in Writers : writers[w].pc = "idle"

\* a call completed that no other call overlapped, and none started since
AfterLoneCall == NoCallInProgress /\ fin.entry # 0 /\ fin.alone

LastEntryIs(n) == logBuffer # <<>> /\ logBuffer[Len(logBuffer)].id = n

C25_UsageOnlyOnSuccess ==
    /\ cmd.posts > 0 => cmd.reply = "ok"
    /\ cmd.msgs # <<>> => credits + cmd.posts > 0

\* C26: a keyboard-command trigger never leads to a form submission: every
\* captureAndFill message it sends, those of the inject-and-retry and
\* reload-and-retry paths included, requests silent application, so that
\* fillAnswers invokes no submit control even with auto-submit enabled.
C26_CommandNeverSubmits ==
    /\ \A i \in DOMAIN cmd.msgs : cmd.msgs[i]
    /\ \A f \in DOMAIN clicks : clicks[f] = 0 /\ submits[f] = 0

\* ------------------------------------------------------------------------
\* Properties of the backend (checked under SpecUsage, SpecWebhook)
\* ------------------------------------------------------------------------
\* the rows of a table that carry key
RowsOf(rows, key) == {i \in DOMAIN rows : rows[i] = key}

\* C29: POST /usage/log is idempotent per requestId: however often a request
\* with the same requestId is processed for a user, one after the other or
\* concurrently, the balance decreases by at most 1 in total for it and at
\* most one usage record carries that requestId.
C29_IdempotentPerRequest ==
    /\ hist.start - db.credits <= Cardinality(hist.keys)
    /\ \A rid \in RequestIds : Cardinality(RowsOf(db.usage, rid)) <= 1

\* C30: a successful-payment webhook event delivered more than once (the
\* same Stripe event or checkout session, the same captured Razorpay
\* payment, the same stub eventId) increases the user's balance by the pack's
\* credits exactly once and records at most one payment for it.
C30_CreditedOncePerPayment ==
    /\ db.credits + store.credits - hist.start = PackCredits * Cardinality(hist.keys)
    /\ \A key \in hist.keys :
          Cardinality(RowsOf(db.payments, key)) + Cardinality(RowsOf(store.payments, key)) <= 1

\* an object payload that holds a choices object and nothing else
ChoicesOnly(a) ==
    /\ a.shape = "object"
    /\ a.hasChoices
    /\ ~a.hasFields
    /\ a.top = <<>>

\* C27: a structured payload with a choices object and no fields object
\* writes to no text-like control; the choices entry serves only the
\* resolution of choice groups and is never looked up as a flat-map key in
\* the label, name, htmlId or placeholder maps.
C27_ChoicesWriteNoText ==
    (fill.applied /\ ChoicesOnly(fill.answers)) =>
        \A e \in DOMAIN PG.els : TextLike(e) => value[e] = fill.pre.value[e]

\* the identifiers one pass of collectSchema generates, each with the control
\* it was generated for
RECURSIVE OptionIds(_, _)
OptionIds(groups, g) ==
    IF g > Len(groups) THEN {}
    ELSE Range(groups[g].options) \cup OptionIds(groups, g + 1)

PassIds ==
    Range(collectSchema(PG.els, tags).textFields)
        \cup OptionIds(collectSchema(PG.els, tags).choiceGroups, 1)

\* C28: within one discovery pass every tagged control carries a distinct
\* generated identifier (text fields, options of one group, options of
\* different groups), and the index's byId map resolves each identifier of
\* the schema to the control it was generated for.
C28_DistinctIdentifiers ==
    pc = "fullWait" =>
        /\ \A x, y \in PassIds : x.el # y.el => x.id # y.id
        /\ \A x \in PassIds : Get(buildFieldIndex(PG.els, tags).byId, x.id) = x.el

====
